---- MODULE Spec2Model ----
(***************************************************************************)
(* Model of langkit/expressions/base.py: the construction pass of          *)
(* properties (PropertyDef.construct_and_type_expression), the process     *)
(* wide binding state it threads (current-property stack, Self's type,     *)
(* dynamic variable bindings), the local variable / scope manager          *)
(* (LocalVars) and the rendering guard of resolved expressions.            *)
(*                                                                         *)
(* Exceptions: a DiagnosticError (check_source_language) unwinds the call  *)
(* stack one frame per step and is caught by the driver of the             *)
(* compilation; an AssertionError or AttributeError unwinds too and then   *)
(* ends the process.                                                       *)
(***************************************************************************)
EXTENDS Integers, Sequences, FiniteSets, TLC

-----------------------------------------------------------------------------
(* Bounds and the finite universe of inputs *)

\* The properties of the compiled language and its dynamic variables.
Props == {"P", "Q"}
DynVars == {"D"}

\* Number of diagnostics the driver catches before it gives up.
MaxFail == 2
\* Size of one property's local variable table.
MaxVars == 3
\* Number of scopes of one property's scope tree (root included).
MaxScopes == 4
\* Number of with-blocks of the scope manager nested in one another.
MaxWith == 2
\* Number of resolved expressions created.
MaxNodes == 2
\* Number of times render_pre is called with success on one node.
MaxRender == 2

NoProp == "NoProp"
NoType == "NoType"
IntType == "Int"
NoBody == <<[op |-> "none", arg |-> ""]>>

\* Names (langkit.names.Name) are compared by their text, words joined by
\* underscores.  Name(b, i) is the name LocalVars.create_scopeless tries in
\* its i-th round: b itself, then b + Name(str(i)).  NoName stands for
\* Python's None.
NoName == ""
Name(b, i) == IF i = 0 THEN b ELSE b \o "_" \o ToString(i)

\* DynamicVariable.argument_name
ArgumentName(d) == Name(d, 0)

\* Base name of the local variable the bind construct creates for d.
BoundName(d) == "Bound_" \o d

\* The node type that owns property p (PropertyDef.struct).
StructOf(p) == IF p = "P" THEN "NodeA" ELSE "NodeB"

NoCall == [op |-> "none", on |-> 0, ok |-> TRUE]

NoIR == [built |-> FALSE, type |-> NoType]

Op(o, a) == [op |-> o, arg |-> a]

\* The abstract expressions a property may have, flattened in construction
\* order.  ref: reference to a dynamic variable; bind/unbind: the bind
\* construct around its to-evaluate expression; type: an expression that reads
\* the type of a property; diag: an expression check_source_language rejects;
\* let: one binding of a Let; the others are the calls resolved expressions
\* make on the scope manager of the property.
Bodies ==
    { <<>>, <<Op("diag", "")>>, <<Op("let", "")>>, <<Op("let", ""), Op("let", "")>>,
      <<Op("create_scopeless", "")>>,
      <<Op("create_scopeless", ""), Op("add", "")>>,
      <<Op("create", ""), Op("add", "")>>,
      <<Op("push", ""), Op("create", ""), Op("pop", "")>>,
      <<Op("push", ""), Op("diag", "")>>,
      <<Op("pop", "")>> }
    \cup UNION { { <<Op("ref", d)>>,
                   <<Op("bind", d), Op("ref", d), Op("unbind", d)>>,
                   <<Op("bind", d), Op("unbind", d), Op("ref", d)>>,
                   <<Op("bind", d), Op("diag", ""), Op("unbind", d)>> } : d \in DynVars }
    \cup UNION { { <<Op("type", q)>>,
                   <<Op("type", q), Op("ref", d)>>,
                   <<Op("bind", d), Op("type", q), Op("unbind", d)>>,
                   <<Op("bind", d), Op("type", q), Op("ref", d), Op("unbind", d)>> }
                 : <<q, d>> \in Props \X DynVars }

-----------------------------------------------------------------------------
VARIABLES
    expr,                  \* PropertyDef.expr: the body, NoBody for None
    expected_type,         \* PropertyDef.expected_type
    dynamic_vars,          \* PropertyDef.dynamic_vars
    base_property,         \* PropertyDef.base_property
    current_properties,    \* PropertyDef.__current_properties__
    self_type,             \* Self._type
    dv_name,               \* DynamicVariable._name
    dynvar_binding_stack,  \* PropertyDef.dynvar_binding_stack
    in_type,               \* PropertyDef.in_type
    constructed_expr,      \* PropertyDef.constructed_expr
    var_typed,             \* the Let variable's _type is set
    local_vars,            \* LocalVars.local_vars, in creation order
    scopes,                \* the Scope objects of a LocalVars
    current_scope,         \* LocalVars.current_scope
    frames,                \* the call stack of the construction pass
    exc,                   \* the exception that is propagating
    diag_msg,              \* the message of the last diagnostic
    nfail,                 \* diagnostics caught by the driver
    withs,                 \* the with-blocks of Scope.new_child / Scope.use entered
    pushes,                \* Scope.push calls made
    pops,                  \* Scope.pop calls accepted
    nodes,                 \* the ResolvedExpression instances
    call,                  \* the last call made on a scope or a node, and its outcome
    av_name,               \* AbstractVariable._name
    av_type,               \* AbstractVariable._type
    construct_cache,       \* AbstractVariable.construct_cache
    var_exprs,             \* the VariableExpr instances created for the variable
    constructs,            \* the calls of AbstractVariable.construct: key and result
    warnings,              \* runs of PropertyDef.warn_on_unused_bindings
    exprs,                 \* the AbstractExpression instances: fields and frozen flag
    construct_args,        \* construct: expr, expected_type_or_pred, downcast
    construct_ret,         \* construct: the exception raised or the node returned
    let_node,              \* a Let or Block: var_exprs, expr, the slots that hold it
    let_types,             \* AbstractVariable._type of the variables of the Let
    let_pc,                \* Let.construct: where it is
    ir_nodes,              \* the resolved expressions of a constructed body
    natural_arguments,     \* PropertyDef.natural_arguments (their variables)
    ignored,               \* the variables whose VariableExpr.ignored is true
    unused_bindings,       \* WarningSet.unused_bindings: the warnings emitted
    arithmetic,            \* an Arithmetic expression: l, r, op
    abstract_fn,           \* expand_abstract_fn: the function and what became of it
    prepared,              \* AbstractExpression.prepare: the tree and the visits
    entity                 \* destructure_entity: the expression and what it returned

\* One AbstractVariable and its memoized construction.
variable == <<av_name, av_type, construct_cache, var_exprs, constructs>>

\* The objects the construction pass works on and does not change.
\* One call of construct.
construct_call == <<construct_args, construct_ret>>

\* One Let or Block and its construction.
let_state == <<let_node, let_types, let_pc>>

\* One constructed body and the warnings about its bindings.
bindings_pass == <<ir_nodes, natural_arguments, ignored, unused_bindings>>

\* What the passes other than the construction of properties work on.
passes == <<bindings_pass, arithmetic, abstract_fn, prepared, entity>>

abstraction == <<variable, exprs, construct_call, let_state, passes>>

config == <<expr, expected_type, dynamic_vars, base_property, abstraction>>
binding == <<current_properties, self_type, dv_name, dynvar_binding_stack>>
locals == <<local_vars, scopes, current_scope, var_typed>>
api == <<withs, pushes, pops, nodes, call>>
vars == <<config, binding, locals, in_type, constructed_expr, warnings, frames,
          exc, diag_msg, nfail, api>>

-----------------------------------------------------------------------------
(* LocalVars and LocalVars.Scope *)

RootScope == [parent |-> 0, sub_scopes |-> <<>>, variables |-> <<>>]

\* LocalVars.create_scopeless: the loop that looks for an unused name.
RECURSIVE UnusedSuffix(_, _, _)
UnusedSuffix(table, base, i) ==
    IF \E k \in 1..Len(table) : table[k].name = Name(base, i)
    THEN UnusedSuffix(table, base, i + 1)
    ELSE i

\* create_scopeless that tries one suffix only.
CreateScopelessOnce(table, base) ==
    Append(table, [name |-> IF base \in {table[k].name : k \in 1..Len(table)}
                            THEN Name(base, 1) ELSE base,
                   scope |-> 0])

CreateScopeless(table, base) ==
    Append(table, [name |-> Name(base, UnusedSuffix(table, base, 0)), scope |-> 0])

\* Scope.add without its assertion.
ScopeAddAcceptsAlways(table, v) == TRUE

\* Scope.add: the assertion, then the effect on the scope list and the table.
ScopeAddAccepts(table, v) == table[v].scope = 0

ScopeAddVariables(ss, s, v) ==
    [ss EXCEPT ![s].variables = Append(@, v)]

ScopeAddTable(table, s, v) == [table EXCEPT ![v].scope = s]

\* Scope.push on scope s: a new child of s, which becomes the current scope.
ScopePush(ss, s) ==
    Append([ss EXCEPT ![s].sub_scopes = Append(@, Len(ss) + 1)],
           [parent |-> s, sub_scopes |-> <<>>, variables |-> <<>>])

\* Scope.pop: the parent of the *current* scope, 0 when it is the root.
ScopePopParent(ss, cur) == ss[cur].parent

\* LocalVars.check_scopes
CheckScopes(table) == \A k \in 1..Len(table) : table[k].scope # 0

-----------------------------------------------------------------------------
(* PropertyDef and DynamicVariable helpers *)

\* PropertyDef.get
Get == IF current_properties = <<>> THEN NoProp
       ELSE current_properties[Len(current_properties)]

\* DynamicVariable.is_accepted_in
IsAcceptedIn(d, p) ==
    /\ p # NoProp
    /\ \E i \in 1..Len(dynamic_vars[p]) : dynamic_vars[p][i] = d

\* DynamicVariable.is_bound
IsBound(d) == IsAcceptedIn(d, Get) \/ dv_name[d] # NoName

\* DynamicVariable.bind_default: the name the variable gets in prop
DefaultName(d, prop) == IF IsAcceptedIn(d, prop) THEN ArgumentName(d) ELSE NoName

\* construct_and_type_expression that resets no caller binding.
ToResetNothing(previous_property) == <<>>

\* construct_and_type_expression: the variables whose binding is reset
ToReset(previous_property) ==
    IF previous_property = NoProp THEN <<>>
    ELSE dynvar_binding_stack[previous_property]

\* construct_and_type_expression without its recursion guard.
RecursionLoopUnchecked(p) == FALSE

\* The recursion guard of construct_and_type_expression
RecursionLoop(p) == in_type[p]

\* Entering the context managers DynamicVariable.bind_default(prop) for the
\* variables ds, in order: each saves the name, sets the default one.
RECURSIVE EnterDefaults(_, _, _, _)
EnterDefaults(ds, prop, names, saved) ==
    IF ds = <<>> THEN [names |-> names, managers |-> saved]
    ELSE EnterDefaults(Tail(ds), prop,
                       [names EXCEPT ![Head(ds)] = DefaultName(Head(ds), prop)],
                       Append(saved, [dv |-> Head(ds), saved |-> names[Head(ds)],
                                      p |-> prop]))

\* DynamicVariable._bind that leaves the bound name in place on exit.
BindExitKeepsName(m) == dv_name[m.dv]

\* DynamicVariable._bind, after the yield: restore the name, pop the stack of
\* the property that was current on entry and assert it yields this variable.
BindExitName(m) == m.saved

RECURSIVE ExitManagers(_, _, _)
ExitManagers(ms, names, stacks) ==
    IF ms = <<>> THEN [names |-> names, stacks |-> stacks, ok |-> TRUE]
    ELSE LET m == ms[Len(ms)]
             st == stacks[m.p]
             names1 == [names EXCEPT ![m.dv] = BindExitName(m)]
         IN IF st = <<>>
            THEN [names |-> names1, stacks |-> stacks, ok |-> FALSE]
            ELSE IF st[Len(st)] # m.dv
            THEN [names |-> names1,
                  stacks |-> [stacks EXCEPT ![m.p] = SubSeq(st, 1, Len(st) - 1)],
                  ok |-> FALSE]
            ELSE ExitManagers(SubSeq(ms, 1, Len(ms) - 1), names1,
                              [stacks EXCEPT ![m.p] = SubSeq(st, 1, Len(st) - 1)])

\* SelfVariable.bind_type that does not restore the type on exit.
BindTypeExitKeepsType(old_type) == self_type

\* SelfVariable.bind_type, after the yield
BindTypeExit(old_type) == old_type

\* PropertyDef.bind, after the yield
PropertyBindExit(stack) == SubSeq(stack, 1, Len(stack) - 1)

-----------------------------------------------------------------------------
(* The call stack *)

Top == frames[Len(frames)]
Pop(s) == SubSeq(s, 1, Len(s) - 1)
Running == exc = "none" /\ frames # <<>>
InBody == Running /\ Top.kind = "body"
AtOp(o) == /\ InBody
           /\ Top.pc <= Len(expr[Top.prop])
           /\ expr[Top.prop][Top.pc].op = o
Arg == expr[Top.prop][Top.pc].arg

\* The top frame with its position advanced.
Advance(fs) == [fs EXCEPT ![Len(fs)].pc = @ + 1]

Raise(kind, msg) ==
    /\ exc' = kind
    /\ diag_msg' = msg

NoRaise == UNCHANGED <<exc, diag_msg>>

BodyFrame(p, old_type, managers) ==
    [kind |-> "body", prop |-> p, pc |-> 1, old_type |-> old_type,
     defaults |-> managers, binds |-> <<>>,
     entry |-> [current_properties |-> current_properties,
                self_type |-> self_type,
                dv_name |-> dv_name,
                dynvar_binding_stack |-> dynvar_binding_stack]]

AbstractFrame(p) ==
    [kind |-> "abstract", prop |-> p, pc |-> 1, old_type |-> NoType,
     defaults |-> <<>>, binds |-> <<>>,
     entry |-> [current_properties |-> current_properties,
                self_type |-> self_type,
                dv_name |-> dv_name,
                dynvar_binding_stack |-> dynvar_binding_stack]]

\* construct_and_type_expression that constructs again what is constructed.
MemoizedNever(p) == FALSE

\* construct_and_type_expression: the expression has already been constructed.
Memoized(p) == constructed_expr[p].built

\* PropertyDef.construct_and_type_expression(p), called with the call stack
\* fs, up to the point where the body starts to be constructed.  A call on a
\* constructed property returns at once.
ConstructAndTypeExpression(p, fs) ==
    IF Memoized(p)
    THEN /\ frames' = fs
         /\ NoRaise
         /\ UNCHANGED <<config, binding, locals, in_type, constructed_expr, warnings, nfail,
                        withs, pushes, pops, nodes>>
    ELSE IF RecursionLoop(p)
    THEN /\ Raise("DiagnosticError", <<"Recursion loop in type inference", p>>)
         /\ frames' = fs
         /\ UNCHANGED <<config, binding, locals, in_type, constructed_expr, warnings, nfail,
                        withs, pushes, pops, nodes>>
    ELSE IF expr[p] = NoBody
    THEN IF expected_type[p] # NoType
         THEN /\ frames' = fs
              /\ NoRaise
              /\ UNCHANGED <<config, binding, locals, in_type, constructed_expr, warnings, nfail,
                        withs, pushes, pops, nodes>>
         ELSE IF base_property[p] = NoProp
         THEN /\ Raise("DiagnosticError", <<"requires an explicit return type", p>>)
              /\ frames' = fs
              /\ UNCHANGED <<config, binding, locals, in_type, constructed_expr, warnings, nfail,
                        withs, pushes, pops, nodes>>
         ELSE /\ frames' = Append(fs, AbstractFrame(p))
              /\ NoRaise
              /\ UNCHANGED <<config, binding, locals, in_type, constructed_expr, warnings, nfail,
                        withs, pushes, pops, nodes>>
    ELSE LET previous_property == Get
             ds == ToReset(previous_property) \o dynamic_vars[p]
             entered == EnterDefaults(ds, p, dv_name, <<>>)
         IN /\ current_properties' = Append(current_properties, p)
            /\ self_type' = StructOf(p)
            /\ dv_name' = entered.names
            /\ dynvar_binding_stack' =
                   [dynvar_binding_stack EXCEPT ![p] = @ \o ds]
            /\ in_type' = [in_type EXCEPT ![p] = TRUE]
            /\ frames' = Append(fs, BodyFrame(p, self_type, entered.managers))
            /\ NoRaise
            /\ UNCHANGED <<config, locals, constructed_expr, warnings, nfail,
                        withs, pushes, pops, nodes>>

\* The value of q.type is available without constructing q.
TypeKnown(q) == expected_type[q] # NoType \/ constructed_expr[q].built

TypeOf(q) == IF expected_type[q] # NoType THEN expected_type[q]
             ELSE constructed_expr[q].type

-----------------------------------------------------------------------------
(* One AbstractVariable *)

\* The names an AbstractVariable has in its life: the one it is created with,
\* the one of its local variable, None for an unbound DynamicVariable.
VarNames == {NoName, Name("V", 0), Name("V", 1)}

\* The types it resolves to.
VarTypes == {"NodeA", "NodeB"}

\* AbstractVariable.__init__: the cache is empty (0: no entry for the key).
InitVariable ==
    /\ av_name \in VarNames
    /\ av_type \in VarTypes
    /\ construct_cache = [key \in VarNames \X VarTypes |-> 0]
    /\ var_exprs = 0
    /\ constructs = <<>>

\* No AbstractVariable takes part.
NoVariable ==
    /\ av_name = NoName
    /\ av_type = "NodeA"
    /\ construct_cache = [key \in VarNames \X VarTypes |-> 0]
    /\ var_exprs = 0
    /\ constructs = <<>>

\* No AbstractExpression exists.
NoExprs == exprs = <<>>

\* construct is not called on its own.
NoConstructCall ==
    /\ construct_args = <<>>
    /\ construct_ret = <<>>

\* No Let is constructed on its own.
NoLet ==
    /\ let_node = <<>>
    /\ let_types = <<>>
    /\ let_pc = <<>>

\* No body was handed to warn_on_unused_bindings.
NoBindingsPass ==
    /\ ir_nodes = <<>>
    /\ natural_arguments = {}
    /\ ignored = {}
    /\ unused_bindings = <<>>

NoArithmetic == arithmetic = <<>>
NoAbstractFn == abstract_fn = <<>>
NoPrepare == prepared = <<>>
NoEntity == entity = <<>>

NoPasses == NoBindingsPass /\ NoArithmetic /\ NoAbstractFn /\ NoPrepare /\ NoEntity

NoAbstraction == NoVariable /\ NoExprs /\ NoConstructCall /\ NoLet /\ NoPasses

-----------------------------------------------------------------------------
Init ==
    /\ NoAbstraction
    /\ expr \in [Props -> Bodies \cup {NoBody}]
    /\ expected_type \in [Props -> {NoType, IntType}]
    /\ dynamic_vars \in [Props -> {<<>>} \cup {<<d>> : d \in DynVars}]
    /\ base_property \in [Props -> Props \cup {NoProp}]
    \* The base property is a property of a parent node type: no cycle.
    /\ \A p \in Props :
          /\ base_property[p] # p
          /\ base_property[p] # NoProp => base_property[base_property[p]] = NoProp
          /\ expr[p] # NoBody => base_property[p] = NoProp
    /\ current_properties = <<>>
    /\ self_type = NoType
    /\ dv_name = [d \in DynVars |-> NoName]
    /\ dynvar_binding_stack = [p \in Props |-> <<>>]
    /\ in_type = [p \in Props |-> FALSE]
    /\ constructed_expr = [p \in Props |-> NoIR]
    /\ warnings = [p \in Props |-> 0]
    /\ var_typed = [p \in Props |-> FALSE]
    \* Let.do_prepare has created the variable of a Let, scopeless.
    /\ local_vars = [p \in Props |->
                       IF \E i \in 1..Len(expr[p]) : expr[p][i].op = "let"
                       THEN CreateScopeless(<<>>, "X") ELSE <<>>]
    /\ scopes = [p \in Props |-> <<RootScope>>]
    /\ current_scope = [p \in Props |-> 1]
    /\ frames = <<>>
    /\ exc = "none"
    /\ diag_msg = <<>>
    /\ nfail = 0
    /\ withs = <<>>
    /\ pushes = 0
    /\ pops = 0
    /\ nodes = <<>>
    /\ call = NoCall


-----------------------------------------------------------------------------
(* The driver of the compilation *)

\* The driver calls construct_and_type_expression on a property.
DriverConstruct(p) ==
    /\ frames = <<>>
    /\ exc = "none"
    /\ ConstructAndTypeExpression(p, frames)
    /\ call' = [op |-> "construct_and_type_expression", on |-> 0, ok |-> TRUE,
                prop |-> p, constructed |-> constructed_expr[p].built]

\* The driver catches a diagnostic and goes on with other properties.
DriverCatch ==
    /\ frames = <<>>
    /\ exc = "DiagnosticError"
    /\ nfail < MaxFail
    /\ exc' = "none"
    /\ nfail' = nfail + 1
    /\ UNCHANGED <<config, binding, locals, in_type, constructed_expr, warnings, frames,
                   diag_msg, api>>

-----------------------------------------------------------------------------
(* Construction of the nodes of a body *)

\* DynamicVariable.construct
ConstructDynamicVariable ==
    /\ AtOp("ref")
    /\ IF IsBound(Arg)
       THEN /\ frames' = Advance(frames)
            /\ NoRaise
       ELSE /\ Raise("DiagnosticError", <<"is not bound in this context", Arg>>)
            /\ UNCHANGED frames
    /\ UNCHANGED <<config, binding, locals, in_type, constructed_expr, warnings, nfail, api>>

\* bind: the value is constructed, its local variable is created in the
\* current scope of the current property and DynamicVariable._bind is entered.
ConstructBind ==
    /\ AtOp("bind")
    /\ LET d == Arg
           p == Get
           table == CreateScopeless(local_vars[p], BoundName(d))
           v == Len(table)
           s == current_scope[p]
       IN /\ p # NoProp
          /\ Len(local_vars[p]) < MaxVars
          /\ local_vars' = [local_vars EXCEPT ![p] = ScopeAddTable(table, s, v)]
          /\ scopes' = [scopes EXCEPT ![p] = ScopeAddVariables(@, s, v)]
          /\ dv_name' = [dv_name EXCEPT ![d] = table[v].name]
          /\ dynvar_binding_stack' = [dynvar_binding_stack EXCEPT ![p] = Append(@, d)]
          /\ frames' = [frames EXCEPT
                          ![Len(frames)].pc = @ + 1,
                          ![Len(frames)].binds =
                              Append(@, [dv |-> d, saved |-> dv_name[d], p |-> p])]
    /\ NoRaise
    /\ UNCHANGED <<config, current_properties, self_type, current_scope, var_typed,
                   in_type, constructed_expr, warnings, nfail, api>>

\* bind: the to-evaluate expression is constructed, DynamicVariable._bind exits.
ExitBind ==
    /\ AtOp("unbind")
    /\ Top.binds # <<>>
    /\ LET m == Top.binds[Len(Top.binds)]
           out == ExitManagers(<<m>>, dv_name, dynvar_binding_stack)
       IN /\ dv_name' = out.names
          /\ dynvar_binding_stack' = out.stacks
          /\ IF out.ok
             THEN /\ frames' = [frames EXCEPT ![Len(frames)].pc = @ + 1,
                                              ![Len(frames)].binds = Pop(@)]
                  /\ NoRaise
             ELSE /\ Raise("AssertionError", <<"dynvar_binding_stack.pop() is self">>)
                  /\ UNCHANGED frames
    /\ UNCHANGED <<config, current_properties, self_type, locals, in_type,
                   constructed_expr, warnings, nfail, api>>

\* An expression reads PropertyDef.type of the property Arg.
ReadPropertyType ==
    /\ AtOp("type")
    /\ IF expected_type[Arg] # NoType
       THEN /\ frames' = Advance(frames)
            /\ NoRaise
            /\ UNCHANGED <<config, binding, locals, in_type, constructed_expr, warnings, nfail, api>>
       ELSE /\ ConstructAndTypeExpression(Arg, IF constructed_expr[Arg].built
                                               THEN Advance(frames) ELSE frames)
            /\ UNCHANGED call

\* An expression that check_source_language rejects.
ConstructInvalid ==
    /\ AtOp("diag")
    /\ Raise("DiagnosticError", <<"expected type, got another">>)
    /\ UNCHANGED <<config, binding, locals, in_type, constructed_expr, warnings, frames, nfail, api>>

\* Let.construct, one binding: AbstractVariable.set_type, then Scope.add of
\* its local variable (the first of the table) to the current scope.
ConstructLetBinding ==
    /\ AtOp("let")
    /\ LET p == Get
           s == current_scope[p]
       IN /\ p # NoProp
          /\ IF var_typed[p]
             THEN /\ Raise("AssertionError", <<"Variable type cannot be set twice">>)
                  /\ UNCHANGED <<locals, frames>>
             ELSE IF ~ScopeAddAccepts(local_vars[p], 1)
             THEN /\ Raise("AssertionError", <<"already has a scope">>)
                  /\ var_typed' = [var_typed EXCEPT ![p] = TRUE]
                  /\ UNCHANGED <<local_vars, scopes, current_scope, frames>>
             ELSE /\ var_typed' = [var_typed EXCEPT ![p] = TRUE]
                  /\ local_vars' = [local_vars EXCEPT ![p] = ScopeAddTable(@, s, 1)]
                  /\ scopes' = [scopes EXCEPT ![p] = ScopeAddVariables(@, s, 1)]
                  /\ frames' = Advance(frames)
                  /\ NoRaise
                  /\ UNCHANGED current_scope
    /\ UNCHANGED <<config, binding, in_type, constructed_expr, warnings, nfail, api>>

\* LocalVars.create_scopeless, called on the current property's table.
CallCreateScopeless ==
    /\ AtOp("create_scopeless")
    /\ LET p == Get
       IN /\ p # NoProp
          /\ Len(local_vars[p]) < MaxVars
          /\ local_vars' = [local_vars EXCEPT ![p] = CreateScopeless(@, "Tmp")]
    /\ frames' = Advance(frames)
    /\ NoRaise
    /\ UNCHANGED <<config, binding, scopes, current_scope, var_typed, in_type,
                   constructed_expr, warnings, nfail, api>>

\* LocalVars.create: create_scopeless, then Scope.add to the current scope.
CallCreate ==
    /\ AtOp("create")
    /\ LET p == Get
           table == CreateScopeless(local_vars[p], "Tmp")
           v == Len(table)
           s == current_scope[p]
       IN /\ p # NoProp
          /\ Len(local_vars[p]) < MaxVars
          /\ local_vars' = [local_vars EXCEPT ![p] = ScopeAddTable(table, s, v)]
          /\ scopes' = [scopes EXCEPT ![p] = ScopeAddVariables(@, s, v)]
    /\ frames' = Advance(frames)
    /\ NoRaise
    /\ UNCHANGED <<config, binding, current_scope, var_typed, in_type,
                   constructed_expr, warnings, nfail, api>>

\* Scope.add of the last created local variable to the current scope.
CallScopeAdd ==
    /\ AtOp("add")
    /\ LET p == Get
           v == Len(local_vars[p])
           s == current_scope[p]
       IN /\ p # NoProp
          /\ v > 0
          /\ IF ScopeAddAccepts(local_vars[p], v)
             THEN /\ local_vars' = [local_vars EXCEPT ![p] = ScopeAddTable(@, s, v)]
                  /\ scopes' = [scopes EXCEPT ![p] = ScopeAddVariables(@, s, v)]
                  /\ frames' = Advance(frames)
                  /\ NoRaise
             ELSE /\ Raise("AssertionError", <<"already has a scope">>)
                  /\ UNCHANGED <<local_vars, scopes, frames>>
    /\ UNCHANGED <<config, binding, current_scope, var_typed, in_type,
                   constructed_expr, warnings, nfail, api>>

\* Scope.push on the current scope of the current property.
CallPush ==
    /\ AtOp("push")
    /\ LET p == Get
       IN /\ p # NoProp
          /\ Len(scopes[p]) < MaxScopes
          /\ scopes' = [scopes EXCEPT ![p] = ScopePush(@, current_scope[p])]
          /\ current_scope' = [current_scope EXCEPT ![p] = Len(scopes[p]) + 1]
    /\ frames' = Advance(frames)
    /\ NoRaise
    /\ UNCHANGED <<config, binding, local_vars, var_typed, in_type,
                   constructed_expr, warnings, nfail, api>>

\* Scope.pop on the current scope of the current property.
CallPop ==
    /\ AtOp("pop")
    /\ LET p == Get
           parent == ScopePopParent(scopes[p], current_scope[p])
       IN /\ p # NoProp
          /\ IF parent # 0
             THEN /\ current_scope' = [current_scope EXCEPT ![p] = parent]
                  /\ frames' = Advance(frames)
                  /\ NoRaise
             ELSE /\ Raise("AssertionError", <<"Trying to pop the root scope">>)
                  /\ UNCHANGED <<current_scope, frames>>
    /\ UNCHANGED <<config, binding, local_vars, scopes, var_typed, in_type,
                   constructed_expr, warnings, nfail, api>>

-----------------------------------------------------------------------------
(* The end of a call and the propagation of an exception *)

\* What the caller does when construct_and_type_expression(q) has returned to
\* it: PropertyDef.type reads constructed_expr.type; the abstract branch has
\* the type of its base property.
Resume(fs, q) ==
    IF fs = <<>> THEN [frames |-> fs, ok |-> TRUE]
    ELSE IF constructed_expr'[q].built
    THEN [frames |-> Advance(fs), ok |-> TRUE]
    ELSE [frames |-> fs, ok |-> FALSE]

\* construct_and_type_expression: the body is constructed.  constructed_expr
\* is set, in_type is reset, the context managers exit in reverse order, then
\* check_scopes runs.
ReturnConstructed ==
    /\ InBody
    /\ Top.pc = Len(expr[Top.prop]) + 1
    /\ LET p == Top.prop
           out == ExitManagers(Top.defaults, dv_name, dynvar_binding_stack)
           back == Resume(Pop(frames), p)
       IN /\ constructed_expr' = [constructed_expr EXCEPT
                                     ![p] = [built |-> TRUE, type |-> IntType]]
          /\ in_type' = [in_type EXCEPT ![p] = FALSE]
          /\ dv_name' = out.names
          /\ dynvar_binding_stack' = out.stacks
          /\ IF ~out.ok
             THEN /\ Raise("AssertionError", <<"dynvar_binding_stack.pop() is self">>)
                  /\ frames' = Pop(frames)
                  /\ UNCHANGED <<current_properties, self_type, warnings>>
             ELSE /\ self_type' = BindTypeExit(Top.old_type)
                  /\ current_properties' = PropertyBindExit(current_properties)
                  /\ IF CheckScopes(local_vars[p])
                     THEN /\ frames' = back.frames
                          /\ warnings' = [warnings EXCEPT ![p] = @ + 1]
                          /\ NoRaise
                     ELSE /\ Raise("AssertionError", <<"has no scope", p>>)
                          /\ frames' = Pop(frames)
                          /\ UNCHANGED warnings
    /\ UNCHANGED <<config, locals, nfail, api>>

\* construct_and_type_expression of an abstract or external property: the
\* type of the base property becomes its expected type.  A caller that came
\* through PropertyDef.type then reads constructed_expr.type, which is None.
ResolveAbstract ==
    /\ Running
    /\ Top.kind = "abstract"
    /\ LET p == Top.prop
           b == base_property[p]
       IN IF TypeKnown(b)
          THEN /\ expected_type' = [expected_type EXCEPT ![p] = TypeOf(b)]
               /\ frames' = Pop(frames)
               /\ IF Len(frames) > 1
                  THEN Raise("AttributeError", <<"NoneType has no attribute type", p>>)
                  ELSE NoRaise
               /\ UNCHANGED <<expr, dynamic_vars, base_property, abstraction, binding,
                              locals, in_type, constructed_expr, warnings, nfail, api>>
          ELSE /\ ConstructAndTypeExpression(b, frames)
               /\ UNCHANGED call

\* construct_and_type_expression without its try/finally.
FinallyNothing(frame, flags) == flags

\* construct_and_type_expression: the finally clause around construct resets
\* in_type; the abstract branch has returned before the try statement.
Finally(frame, flags) ==
    IF frame.kind = "body" THEN [flags EXCEPT ![frame.prop] = FALSE] ELSE flags

\* An exception leaves a frame.  Of construct_and_type_expression only the
\* finally clause runs: the context managers have no try/finally around their
\* yield, so nothing after it runs.
Unwind ==
    /\ exc # "none"
    /\ frames # <<>>
    /\ in_type' = Finally(Top, in_type)
    /\ frames' = Pop(frames)
    /\ UNCHANGED <<config, binding, locals, constructed_expr, warnings, exc, diag_msg, nfail, api>>

-----------------------------------------------------------------------------
Next ==
    \/ \E p \in Props : DriverConstruct(p)
    \/ DriverCatch
    \/ ConstructDynamicVariable
    \/ ConstructBind
    \/ ExitBind
    \/ ReadPropertyType
    \/ ConstructInvalid
    \/ ConstructLetBinding
    \/ CallCreateScopeless
    \/ CallCreate
    \/ CallScopeAdd
    \/ CallPush
    \/ CallPop
    \/ ReturnConstructed
    \/ ResolveAbstract
    \/ Unwind

Spec == Init /\ [][Next]_vars

TypeOK ==
    /\ exc \in {"none", "DiagnosticError", "AssertionError", "AttributeError",
                "Exception"}
    /\ \A p \in Props : current_scope[p] \in 1..Len(scopes[p])
    /\ \A i \in 1..Len(frames) : frames[i].prop \in Props


-----------------------------------------------------------------------------
(* Claims about the construction pass *)

\* The frame of the innermost property whose body is being constructed.
BodyFrames == {i \in 1..Len(frames) : frames[i].kind = "body"}
Innermost == frames[CHOOSE i \in BodyFrames : \A j \in BodyFrames : j <= i]
UnderConstruction(p) == \E i \in BodyFrames : frames[i].prop = p

\* The step in which the exception leaves the frame of a body.
RaisedOutOfBody ==
    /\ exc = "DiagnosticError"
    /\ frames # <<>>
    /\ Top.kind = "body"
    /\ frames' = Pop(frames)

\* The step in which construct_and_type_expression returns after having
\* constructed the body.
ReturnedFromBody ==
    /\ InBody
    /\ exc' = "none"
    /\ Len(frames') = Len(frames) - 1

\* C1: when a diagnostic raised during the construction of P's body has left
\* construct_and_type_expression(P), the current-property stack, Self's type
\* and the names of the dynamic variables are what they were before the call
\* and P's binding stack is empty.
C1_StateRestoredAfterDiagnostic ==
    [][RaisedOutOfBody =>
         /\ current_properties' = Top.entry.current_properties
         /\ self_type' = Top.entry.self_type
         /\ dv_name' = Top.entry.dv_name
         /\ dynvar_binding_stack'[Top.prop] = <<>>]_vars

\* The resolution of q is requested by the running frame: an expression reads
\* q.type and q has no declared type, or the abstract branch reads the type of
\* its base property q.
Requested(q) ==
    /\ Running
    /\ \/ AtOp("type") /\ Arg = q /\ expected_type[q] = NoType
       \/ Top.kind = "abstract" /\ base_property[Top.prop] = q
                                /\ expected_type[q] = NoType

\* C2: a resolution of q requested while q's own body is being constructed
\* fails with the recursion-loop diagnostic: no frame is entered and no
\* constructed expression is produced.
C2_ReentryIsRejected ==
    [][\A q \in Props :
          (Requested(q) /\ UnderConstruction(q)) =>
              /\ exc' = "DiagnosticError"
              /\ diag_msg' = <<"Recursion loop in type inference", q>>
              /\ frames' = frames
              /\ constructed_expr' = constructed_expr]_vars

C2_Witness ==
    /\ exc = "DiagnosticError"
    /\ \E q \in Props :
          /\ diag_msg = <<"Recursion loop in type inference", q>>
          /\ UnderConstruction(q)
          /\ Len(frames) = 2
          /\ Top.prop # q

\* C30: in_type of a property is true exactly while its body is being
\* constructed inside construct_and_type_expression: it is false before the
\* call and false again once the call has ended, by a return or by a
\* diagnostic, so that a failed construction does not leave the property
\* reporting a recursion loop at the next attempt.
C30_InTypeOnlyDuringConstruction ==
    \A p \in Props : in_type[p] <=> UnderConstruction(p)

\* The construction of q has ended with the recursion-loop diagnostic raised
\* while another property was constructed for it, and the driver has caught it.
C30_Witness ==
    /\ exc = "DiagnosticError"
    /\ frames = <<>>
    /\ \E q \in Props :
          /\ diag_msg = <<"Recursion loop in type inference", q>>
          /\ call.op = "construct_and_type_expression"
          /\ call.prop = q
          /\ ~in_type[q]

\* C8: while the body of P is constructed the current property is P and Self
\* has the type of P's owning node; when the call returns the current-property
\* stack and Self's type are what they were before the call.
C8_During ==
    (exc = "none" /\ BodyFrames # {}) =>
        /\ Get = Innermost.prop
        /\ self_type = StructOf(Innermost.prop)

C8_CurrentPropertyAndSelf ==
    /\ []C8_During
    /\ [][ReturnedFromBody =>
             /\ current_properties' = Top.entry.current_properties
             /\ self_type' = Top.entry.self_type]_vars

\* P is constructing its body again after the nested construction of another
\* property returned.
C8_Witness ==
    /\ InBody
    /\ Len(frames) = 1
    /\ Top.pc > 1
    /\ expr[Top.prop][Top.pc - 1].op = "type"
    /\ expr[Top.prop][Top.pc - 1].arg # Top.prop
    /\ expected_type[expr[Top.prop][Top.pc - 1].arg] = NoType
    /\ expr[expr[Top.prop][Top.pc - 1].arg] # NoBody
    /\ constructed_expr[expr[Top.prop][Top.pc - 1].arg].built
    /\ nfail = 0

\* The frame i has an active bind of d.
BindsIn(i, d) == \E k \in 1..Len(frames[i].binds) : frames[i].binds[k].dv = d

\* d is explicitly bound in the construction of a caller of the top frame.
BoundByCaller(d) ==
    \E i \in BodyFrames : i < Len(frames) /\ BindsIn(i, d)

\* C9: in the construction of Q entered while a caller has D explicitly bound,
\* D has Q's default binding (the argument name if Q accepts D, none
\* otherwise) unless Q binds D itself; when Q's construction returns, D's name
\* and the caller's binding stack are what they were when Q was entered and
\* Q's binding stack is empty.
C9_During ==
    \A d \in DynVars :
        (InBody /\ BoundByCaller(d) /\ ~BindsIn(Len(frames), d)) =>
            dv_name[d] = (IF \E i \in 1..Len(dynamic_vars[Top.prop]) :
                                dynamic_vars[Top.prop][i] = d
                          THEN ArgumentName(d) ELSE NoName)

C9_NestedConstructionResetsBindings ==
    /\ []C9_During
    /\ [][(ReturnedFromBody /\ \E d \in DynVars : BoundByCaller(d)) =>
             /\ dv_name' = Top.entry.dv_name
             /\ \A p \in Props \ {Top.prop} :
                   dynvar_binding_stack'[p] = Top.entry.dynvar_binding_stack[p]
             /\ dynvar_binding_stack'[Top.prop] = <<>>]_vars

\* The caller is back in the to-evaluate expression of its bind of D after
\* the nested construction returned.
C9_Witness ==
    /\ InBody
    /\ Len(frames) = 1
    /\ Top.pc > 1
    /\ expr[Top.prop][Top.pc - 1].op = "type"
    /\ expected_type[expr[Top.prop][Top.pc - 1].arg] = NoType
    /\ expr[expr[Top.prop][Top.pc - 1].arg] # NoBody
    /\ constructed_expr[expr[Top.prop][Top.pc - 1].arg].built
    /\ \E d \in DynVars : BindsIn(1, d) /\ dv_name[d] = Name(BoundName(d), 0)

\* C10: the construction of a reference to D succeeds iff the property under
\* construction accepts D or the reference is inside the to-evaluate
\* expression of an active bind of D of that property; otherwise it fails with
\* the diagnostic that names D.
C10_ReferenceNeedsBinding ==
    [][AtOp("ref") =>
         IF \/ \E i \in 1..Len(dynamic_vars[Top.prop]) :
                    dynamic_vars[Top.prop][i] = Arg
            \/ BindsIn(Len(frames), Arg)
         THEN exc' = "none" /\ frames' = Advance(frames)
         ELSE /\ exc' = "DiagnosticError"
              /\ diag_msg' = <<"is not bound in this context", Arg>>
              /\ frames' = frames]_vars

\* A reference constructed after the bind of D has finished was rejected.
C10_Witness ==
    /\ exc = "DiagnosticError"
    /\ frames # <<>>
    /\ Top.kind = "body"
    /\ Top.pc = 3
    /\ expr[Top.prop][1].op = "bind"
    /\ expr[Top.prop][2].op = "unbind"
    /\ expr[Top.prop][3].op = "ref"
    /\ diag_msg = <<"is not bound in this context", expr[Top.prop][3].arg>>


\* Number of places of the scope lists of p that hold variable v.
Occurrences(p, v) ==
    Cardinality({sk \in (1..Len(scopes[p])) \X (1..MaxVars + 1) :
                    /\ sk[2] <= Len(scopes[p][sk[1]].variables)
                    /\ scopes[p][sk[1]].variables[sk[2]] = v})

\* construct_and_type_expression(p) has returned without an exception.
ReturnedConstructed(p) ==
    /\ constructed_expr[p].built
    /\ ~(exc = "AssertionError" /\ diag_msg = <<"has no scope", p>>)

\* C6: a local variable is in the list of the scope it is associated with,
\* once, and in no other list (so a rejected Scope.add changed no list); once
\* construct_and_type_expression has returned, every local variable of the
\* property has a scope.
C6_EveryVariableInOneScope ==
    \A p \in Props :
        /\ \A v \in 1..Len(local_vars[p]) :
              /\ Occurrences(p, v) = (IF local_vars[p][v].scope = 0 THEN 0 ELSE 1)
              /\ local_vars[p][v].scope # 0 =>
                    \E k \in 1..Len(scopes[p][local_vars[p][v].scope].variables) :
                        scopes[p][local_vars[p][v].scope].variables[k] = v
        /\ ReturnedConstructed(p) =>
              \A v \in 1..Len(local_vars[p]) : local_vars[p][v].scope # 0

\* C12: a call of construct_and_type_expression on a property that has its
\* constructed expression changes nothing: the expression, the local
\* variables and scopes, the current-property stack and the other bindings, the
\* count of unused-binding warning passes; and no step changes an expression
\* that is constructed.
C12_ConstructionIsMemoized ==
    [][\A p \in Props :
          /\ (constructed_expr[p].built /\ DriverConstruct(p)) =>
                /\ exc' = "none"
                /\ UNCHANGED <<constructed_expr, locals, binding, warnings, in_type,
                               frames>>
          /\ constructed_expr[p].built =>
                /\ constructed_expr'[p] = constructed_expr[p]
                /\ warnings'[p] = warnings[p]]_vars

\* construct_and_type_expression was called on a constructed property.
C12_Witness ==
    /\ call.op = "construct_and_type_expression"
    /\ call.constructed
    /\ constructed_expr[call.prop].built
    /\ warnings[call.prop] = 1
    /\ Len(local_vars[call.prop]) >= 1
    /\ exc = "none"

\* One property is constructed with its local variables in scopes, and a
\* Scope.add on a variable that has a scope was rejected in another.
C6_Witness ==
    /\ exc = "AssertionError"
    /\ diag_msg = <<"already has a scope">>
    /\ \E p \in Props :
          /\ ReturnedConstructed(p)
          /\ Len(local_vars[p]) >= 1


-----------------------------------------------------------------------------
(* The scope manager of one property, called directly *)

\* The property whose LocalVars the calls below are made on.
Owner == "P"

\* The state in which property Owner is the current one and nothing is
\* constructed yet.
ManagerIdle ==
    /\ expr = [p \in Props |-> <<>>]
    /\ expected_type = [p \in Props |-> NoType]
    /\ dynamic_vars = [p \in Props |-> <<>>]
    /\ base_property = [p \in Props |-> NoProp]
    /\ current_properties = <<Owner>>
    /\ self_type = StructOf(Owner)
    /\ dv_name = [d \in DynVars |-> NoName]
    /\ dynvar_binding_stack = [p \in Props |-> <<>>]
    /\ in_type = [p \in Props |-> FALSE]
    /\ constructed_expr = [p \in Props |-> NoIR]
    /\ warnings = [p \in Props |-> 0]
    /\ var_typed = [p \in Props |-> FALSE]
    /\ local_vars = [p \in Props |-> <<>>]
    /\ scopes = [p \in Props |-> <<RootScope>>]
    /\ current_scope = [p \in Props |-> 1]
    /\ frames = <<>>
    /\ exc = "none"
    /\ diag_msg = <<>>
    /\ nfail = 0
    /\ withs = <<>>
    /\ pushes = 0
    /\ pops = 0
    /\ nodes = <<>>
    /\ call = NoCall

InitManager == ManagerIdle /\ NoAbstraction

construction == <<config, binding, in_type, constructed_expr, warnings, frames>>

\* Scope.push called on the scope s.
ScopePush_(s) ==
    /\ exc = "none"
    /\ s \in 1..Len(scopes[Owner])
    /\ Len(scopes[Owner]) < MaxScopes
    /\ scopes' = [scopes EXCEPT ![Owner] = ScopePush(@, s)]
    /\ current_scope' = [current_scope EXCEPT ![Owner] = Len(scopes[Owner]) + 1]
    /\ pushes' = pushes + 1
    /\ call' = [op |-> "push", on |-> s, ok |-> TRUE]
    /\ UNCHANGED <<construction, local_vars, var_typed, exc, diag_msg, nfail,
                   withs, pops, nodes>>

\* Scope.pop called on the scope s: s plays no part, the parent of the
\* current scope becomes the current scope.
ScopePop_(s) ==
    /\ exc = "none"
    /\ s \in 1..Len(scopes[Owner])
    /\ LET parent == ScopePopParent(scopes[Owner], current_scope[Owner])
       IN IF parent # 0
          THEN /\ current_scope' = [current_scope EXCEPT ![Owner] = parent]
               /\ pops' = pops + 1
               /\ call' = [op |-> "pop", on |-> s, ok |-> TRUE]
               /\ NoRaise
          ELSE /\ Raise("AssertionError", <<"Trying to pop the root scope">>)
               /\ call' = [op |-> "pop", on |-> s, ok |-> FALSE]
               /\ UNCHANGED <<current_scope, pops>>
    /\ UNCHANGED <<construction, local_vars, scopes, var_typed, nfail, withs,
                   pushes, nodes>>

NextPushPop ==
    \/ \E s \in 1..MaxScopes : ScopePush_(s)
    \/ \E s \in 1..MaxScopes : ScopePop_(s)

SpecPushPop == InitManager /\ [][NextPushPop]_vars

-----------------------------------------------------------------------------
(* LocalVars.create and LocalVars.create_scopeless, called directly *)

\* The names the callers ask for: the second is what the first becomes when
\* it collides once.
BaseNames == {"X", "X_1"}

\* The names of the variables of a table.
NamesOf(table) == {table[k].name : k \in 1..Len(table)}

\* LocalVars.create_scopeless(base, type) on the table of Owner.
CreateScopeless_(base) ==
    /\ exc = "none"
    /\ Len(local_vars[Owner]) < MaxVars
    /\ local_vars' = [local_vars EXCEPT ![Owner] = CreateScopeless(@, base)]
    /\ call' = [op |-> "create_scopeless", on |-> 0, ok |-> TRUE, base |-> base]
    /\ UNCHANGED <<construction, scopes, current_scope, var_typed, exc, diag_msg,
                   nfail, withs, pushes, pops, nodes>>

\* LocalVars.create(base, type): create_scopeless, then Scope.add to the
\* current scope of the current property.
Create_(base) ==
    /\ exc = "none"
    /\ Len(local_vars[Owner]) < MaxVars
    /\ LET table == CreateScopeless(local_vars[Owner], base)
           v == Len(table)
           s == current_scope[Owner]
       IN /\ local_vars' = [local_vars EXCEPT ![Owner] = ScopeAddTable(table, s, v)]
          /\ scopes' = [scopes EXCEPT ![Owner] = ScopeAddVariables(@, s, v)]
          /\ call' = [op |-> "create", on |-> s, ok |-> TRUE, base |-> base]
    /\ UNCHANGED <<construction, current_scope, var_typed, exc, diag_msg, nfail,
                   withs, pushes, pops, nodes>>

NextCreate ==
    \/ \E base \in BaseNames : CreateScopeless_(base)
    \/ \E base \in BaseNames : Create_(base)
    \/ \E s \in 1..MaxScopes : ScopePush_(s)

SpecCreate == InitManager /\ [][NextCreate]_vars

\* The last call created a variable.
Created == call.op \in {"create", "create_scopeless"}

EnterNewChild(s) ==
    /\ exc = "none"
    /\ s \in 1..Len(scopes[Owner])
    /\ Len(scopes[Owner]) < MaxScopes
    /\ Len(withs) < MaxWith
    /\ scopes' = [scopes EXCEPT ![Owner] = ScopePush(@, s)]
    /\ current_scope' = [current_scope EXCEPT ![Owner] = Len(scopes[Owner]) + 1]
    /\ pushes' = pushes + 1
    /\ withs' = Append(withs, [kind |-> "new_child", self |-> s, old_scope |-> 0,
                               entered_in |-> current_scope[Owner]])
    /\ call' = [op |-> "new_child", on |-> s, ok |-> TRUE]
    /\ UNCHANGED <<construction, local_vars, var_typed, exc, diag_msg, nfail,
                   pops, nodes>>

\* with s.use(): the block is entered.
EnterUse(s) ==
    /\ exc = "none"
    /\ s \in 1..Len(scopes[Owner])
    /\ Len(withs) < MaxWith
    /\ current_scope' = [current_scope EXCEPT ![Owner] = s]
    /\ withs' = Append(withs, [kind |-> "use", self |-> s,
                               old_scope |-> current_scope[Owner],
                               entered_in |-> current_scope[Owner]])
    /\ call' = [op |-> "use", on |-> s, ok |-> TRUE]
    /\ UNCHANGED <<construction, local_vars, scopes, var_typed, exc, diag_msg,
                   nfail, pushes, pops, nodes>>

\* The innermost with-block ends normally: the code after the yield runs,
\* self.pop() for new_child, the assignment of old_scope for use.
ExitWith ==
    /\ exc = "none"
    /\ withs # <<>>
    /\ LET w == withs[Len(withs)]
           parent == ScopePopParent(scopes[Owner], current_scope[Owner])
       IN IF w.kind = "use"
          THEN /\ current_scope' = [current_scope EXCEPT ![Owner] = w.old_scope]
               /\ call' = [op |-> "exit", on |-> w.self, ok |-> TRUE]
               /\ NoRaise
               /\ UNCHANGED pops
          ELSE IF parent # 0
          THEN /\ current_scope' = [current_scope EXCEPT ![Owner] = parent]
               /\ pops' = pops + 1
               /\ call' = [op |-> "exit", on |-> w.self, ok |-> TRUE]
               /\ NoRaise
          ELSE /\ Raise("AssertionError", <<"Trying to pop the root scope">>)
               /\ call' = [op |-> "exit", on |-> w.self, ok |-> FALSE]
               /\ UNCHANGED <<current_scope, pops>>
    /\ withs' = Pop(withs)
    /\ UNCHANGED <<construction, local_vars, scopes, var_typed, nfail, pushes,
                   nodes>>

\* The construction made inside the innermost block raises a diagnostic.
RaiseInWith ==
    /\ exc = "none"
    /\ withs # <<>>
    /\ Raise("DiagnosticError", <<"expected type, got another">>)
    /\ UNCHANGED <<construction, locals, nfail, api>>

\* The exception leaves a with-block: the generator has no try/finally around
\* its yield, nothing after the yield runs.
UnwindWith ==
    /\ exc # "none"
    /\ withs # <<>>
    /\ withs' = Pop(withs)
    /\ call' = [op |-> "raise", on |-> withs[Len(withs)].self, ok |-> FALSE]
    /\ UNCHANGED <<construction, locals, exc, diag_msg, nfail, pushes, pops, nodes>>

\* The driver catches the diagnostic.
CatchInManager ==
    /\ exc = "DiagnosticError"
    /\ withs = <<>>
    /\ nfail < MaxFail
    /\ exc' = "none"
    /\ nfail' = nfail + 1
    /\ UNCHANGED <<construction, locals, diag_msg, api>>

NextWith ==
    \/ \E s \in 1..MaxScopes : EnterNewChild(s)
    \/ \E s \in 1..MaxScopes : EnterUse(s)
    \/ ExitWith
    \/ RaiseInWith
    \/ UnwindWith
    \/ CatchInManager

SpecWith == InitManager /\ [][NextWith]_vars

\* C5: when a with-block of Scope.new_child or Scope.use ends, normally or
\* because of an exception, the current scope is the scope that was current
\* when the block was entered.
C5_WithRestoresCurrentScope ==
    [][(withs # <<>> /\ withs' = Pop(withs)) =>
          current_scope'[Owner] = withs[Len(withs)].entered_in]_vars

\* C7 (the counts): no more pops are accepted than pushes were made.
C7_PopsWithinPushes == pops <= pushes

\* C7: a pop is accepted only if the current scope has a parent, no more pops
\* are accepted than pushes were made, and a rejected pop leaves the current
\* scope, the root, unchanged.
C7_PopRejectedAtRoot ==
    /\ []C7_PopsWithinPushes
    /\ [][/\ pops' # pops => scopes[Owner][current_scope[Owner]].parent # 0
          /\ (call'.op = "pop" /\ ~call'.ok) =>
                /\ current_scope' = current_scope
                /\ current_scope[Owner] = 1]_vars


-----------------------------------------------------------------------------
(* Resolved expressions: creation and rendering *)

\* The types of a resolved expression: one that is not ref-counted, one that
\* is, and no_compiled_type.
Types == {IntType, "Array", "NoCompiledType"}
IsRefcounted(t) == t = "Array"

\* ResolvedExpression.__init__ as the subclasses call it: VariableExpr and
\* LiteralExpr pass skippable_refcount, ComputingExpr passes the name of a
\* result variable, UncheckedCastExpr passes nothing.
Kinds == {"VariableExpr", "LiteralExpr", "UncheckedCastExpr", "ComputingExpr"}
SkippableRefcount(kind) == kind \in {"VariableExpr", "LiteralExpr", "SavedExpr"}
ResultVarName(kind) == IF kind = "ComputingExpr" THEN "Result" ELSE ""

\* render_pre that never sets its guard.
RenderPreCalledNever(node) == FALSE

\* render_pre: the value the guard gets.
RenderPreCalled(node) == node.kind # "VariableExpr"

\* render_pre: the assertion about ref-counted results.
RefcountedResultStored(node) ==
    \/ node.skippable_refcount
    \/ node.type = "NoCompiledType"
    \/ ~IsRefcounted(node.type)
    \/ node.result_var # 0

\* LocalVars.create on the table of the current property: the table and the
\* scope lists after it.
CreatedTable(p, base) ==
    ScopeAddTable(CreateScopeless(local_vars[p], base), current_scope[p],
                  Len(local_vars[p]) + 1)

CreatedScopes(p) ==
    ScopeAddVariables(scopes[p], current_scope[p], Len(local_vars[p]) + 1)

InitRender == InitManager

\* A resolved expression of the given kind and type is created.
NewResolvedExpression(kind, type) ==
    /\ exc = "none"
    /\ Len(nodes) < MaxNodes
    /\ Get # NoProp
    /\ IF ResultVarName(kind) # ""
       THEN /\ Len(local_vars[Get]) < MaxVars
            /\ local_vars' = [local_vars EXCEPT ![Get] = CreatedTable(Get, ResultVarName(kind))]
            /\ scopes' = [scopes EXCEPT ![Get] = CreatedScopes(Get)]
       ELSE UNCHANGED <<local_vars, scopes>>
    /\ nodes' = Append(nodes,
                       [kind |-> kind, type |-> type,
                        skippable_refcount |-> SkippableRefcount(kind),
                        result_var |-> IF ResultVarName(kind) # ""
                                       THEN Len(local_vars[Get]) + 1 ELSE 0,
                        render_pre_called |-> FALSE,
                        rendered |-> 0])
    /\ call' = [op |-> "new", on |-> Len(nodes) + 1, ok |-> TRUE]
    /\ UNCHANGED <<construction, current_scope, var_typed, exc, diag_msg, nfail,
                   withs, pushes, pops>>

\* ResolvedExpression.render_pre
RenderPre(n) ==
    /\ exc = "none"
    /\ n \in 1..Len(nodes)
    /\ nodes[n].rendered < MaxRender
    /\ IF nodes[n].render_pre_called
       THEN /\ Raise("AssertionError", <<"render_pre can be called only once">>)
            /\ call' = [op |-> "render_pre", on |-> n, ok |-> FALSE]
            /\ UNCHANGED nodes
       ELSE IF ~RefcountedResultStored(nodes[n])
       THEN /\ Raise("AssertionError", <<"must store their result in a local variable">>)
            /\ call' = [op |-> "render_pre", on |-> n, ok |-> FALSE]
            /\ nodes' = [nodes EXCEPT ![n].render_pre_called = RenderPreCalled(nodes[n])]
       ELSE /\ nodes' = [nodes EXCEPT ![n].render_pre_called = RenderPreCalled(nodes[n]),
                                      ![n].rendered = @ + 1]
            /\ call' = [op |-> "render_pre", on |-> n, ok |-> TRUE]
            /\ NoRaise
    /\ UNCHANGED <<construction, locals, nfail, withs, pushes, pops>>

\* ResolvedExpression.render_expr
RenderExpr(n) ==
    /\ exc = "none"
    /\ n \in 1..Len(nodes)
    /\ call' = [op |-> "render_expr", on |-> n, ok |-> TRUE]
    /\ UNCHANGED <<construction, locals, exc, diag_msg, nfail, withs, pushes,
                   pops, nodes>>

\* ResolvedExpression.create_result_var
CreateResultVar(n) ==
    /\ exc = "none"
    /\ n \in 1..Len(nodes)
    /\ Get # NoProp
    /\ IF nodes[n].render_pre_called
       THEN /\ Raise("AssertionError", <<"the expression has been rendered">>)
            /\ call' = [op |-> "create_result_var", on |-> n, ok |-> FALSE]
            /\ UNCHANGED <<nodes, local_vars, scopes>>
       ELSE /\ call' = [op |-> "create_result_var", on |-> n, ok |-> TRUE]
            /\ NoRaise
            /\ IF nodes[n].kind # "VariableExpr" /\ nodes[n].result_var = 0
               THEN /\ Len(local_vars[Get]) < MaxVars
                    /\ local_vars' = [local_vars EXCEPT ![Get] = CreatedTable(Get, "Result")]
                    /\ scopes' = [scopes EXCEPT ![Get] = CreatedScopes(Get)]
                    /\ nodes' = [nodes EXCEPT ![n].result_var = Len(local_vars[Get]) + 1]
               ELSE UNCHANGED <<nodes, local_vars, scopes>>
    /\ UNCHANGED <<construction, current_scope, var_typed, nfail, withs, pushes,
                   pops>>

NextRender ==
    \/ \E kind \in Kinds, type \in Types : NewResolvedExpression(kind, type)
    \/ \E n \in 1..MaxNodes : RenderPre(n)
    \/ \E n \in 1..MaxNodes : RenderExpr(n)
    \/ \E n \in 1..MaxNodes : CreateResultVar(n)

SpecRender == InitRender /\ [][NextRender]_vars

\* C3 (the state part): render_pre has succeeded at most once on a node that
\* is not a VariableExpr, the guard of a VariableExpr is never set, a
\* render_pre on a VariableExpr and a render_expr on any node do not fail.
C3_State ==
    /\ \A n \in 1..Len(nodes) :
          /\ nodes[n].kind # "VariableExpr" => nodes[n].rendered <= 1
          /\ nodes[n].kind = "VariableExpr" => ~nodes[n].render_pre_called
    /\ (call.op = "render_pre" /\ nodes[call.on].kind = "VariableExpr") => call.ok
    /\ call.op = "render_expr" => call.ok

\* C3: render_pre succeeds at most once on a node that is not a VariableExpr:
\* once it was called the guard stays set whatever is called, and a render_pre
\* on a node whose guard is set fails; on a VariableExpr it never fails.
C3_RenderPreAtMostOnce ==
    /\ []C3_State
    /\ [][\A n \in 1..Len(nodes) :
             /\ nodes[n].render_pre_called => nodes'[n].render_pre_called
             /\ nodes[n].rendered > 0 /\ nodes[n].kind # "VariableExpr" =>
                   nodes'[n].rendered = nodes[n].rendered
             /\ (nodes[n].rendered > 0 /\ nodes[n].kind # "VariableExpr"
                 /\ call'.op = "render_pre" /\ call'.on = n /\ call' # call) =>
                   ~call'.ok /\ exc' = "AssertionError"]_vars

\* A second render_pre on a rendered node was rejected, and a VariableExpr
\* was rendered twice.
C3_Witness ==
    /\ call = [op |-> "render_pre", on |-> 1, ok |-> FALSE]
    /\ diag_msg = <<"render_pre can be called only once">>
    /\ Len(nodes) = 2
    /\ nodes[1].kind # "VariableExpr"
    /\ nodes[1].rendered = 1
    /\ nodes[2].kind = "VariableExpr"
    /\ nodes[2].rendered = 2

\* C4: every resolved expression that exists and whose type is ref-counted
\* owns a result variable unless it is marked skippable: its creation without
\* one fails.
C4_RefcountedOwnsResultVar ==
    \A n \in 1..Len(nodes) :
        (IsRefcounted(nodes[n].type) /\ ~nodes[n].skippable_refcount) =>
            nodes[n].result_var # 0

-----------------------------------------------------------------------------
(* AbstractVariable.construct and its cache *)

\* Number of calls of AbstractVariable.construct.
MaxConstructs == 4

\* The state of the properties: untouched by what is done on one abstraction.
properties == <<expr, expected_type, dynamic_vars, base_property, binding, locals,
                in_type, constructed_expr, warnings, frames, nfail, api, passes>>

\* The same, but for the last call and its outcome.
properties_ == <<expr, expected_type, dynamic_vars, base_property, binding, locals,
                 in_type, constructed_expr, warnings, frames, nfail, withs, pushes,
                 pops, nodes, passes>>

\* AbstractVariable.construct that never finds its key in the cache.
CacheLookupMiss(cache, key) == 0

\* AbstractVariable.construct: the cached VariableExpr of the key, 0 for KeyError.
CacheLookup(cache, key) == cache[key]

\* AbstractVariable.construct
AbstractVariableConstruct ==
    /\ Len(constructs) < MaxConstructs
    /\ LET key == <<av_name, av_type>>
           hit == CacheLookup(construct_cache, key)
           result == IF hit # 0 THEN hit ELSE var_exprs + 1
       IN /\ var_exprs' = IF hit # 0 THEN var_exprs ELSE var_exprs + 1
          /\ construct_cache' = [construct_cache EXCEPT ![key] = result]
          /\ constructs' = Append(constructs, [name |-> av_name, type |-> av_type,
                                               result |-> result])
    /\ UNCHANGED <<av_name, av_type, exprs, construct_call, let_state, properties,
                   exc, diag_msg>>

\* The name of the variable changes: create_local_variable gives it the name
\* of its local variable, DynamicVariable._bind sets and restores it.
SetVariableName(name) ==
    /\ name # av_name
    /\ av_name' = name
    /\ UNCHANGED <<av_type, construct_cache, var_exprs, constructs, exprs,
                   construct_call, let_state, properties, exc, diag_msg>>

\* The type of the variable changes: SelfVariable.bind_type sets and restores it.
SetVariableType(type) ==
    /\ type # av_type
    /\ av_type' = type
    /\ UNCHANGED <<av_name, construct_cache, var_exprs, constructs, exprs,
                   construct_call, let_state, properties, exc, diag_msg>>

NextVariable ==
    \/ AbstractVariableConstruct
    \/ \E name \in VarNames : SetVariableName(name)
    \/ \E type \in VarTypes : SetVariableType(type)

InitVariableAlone ==
    ManagerIdle /\ InitVariable /\ NoExprs /\ NoConstructCall /\ NoLet /\ NoPasses

SpecVariable == InitVariableAlone /\ [][NextVariable]_vars

\* The keys construct was called with.
ConstructedKeys == {<<constructs[i].name, constructs[i].type>> : i \in 1..Len(constructs)}

\* C11: two constructs of the variable made with the same name and the same
\* resolved type return the same VariableExpr, whatever was constructed in
\* between, and one VariableExpr exists for each (name, type) pair constructed.
C11_ConstructIsMemoized ==
    /\ \A i, j \in 1..Len(constructs) :
          (constructs[i].name = constructs[j].name
           /\ constructs[i].type = constructs[j].type) =>
              constructs[i].result = constructs[j].result
    /\ var_exprs = Cardinality(ConstructedKeys)

\* The variable was constructed, constructed again under another key, and
\* constructed a third time under the first key.
C11_Witness ==
    /\ Len(constructs) >= 3
    /\ constructs[1].name = constructs[3].name
    /\ constructs[1].type = constructs[3].type
    /\ <<constructs[2].name, constructs[2].type>>
          # <<constructs[1].name, constructs[1].type>>
    /\ constructs[3].result = constructs[1].result

-----------------------------------------------------------------------------
(* Frozable: the frozen flag of the abstract expressions *)

\* The abstract expressions of the prepared tree: the root and two others.
Tree == 1..3
\* Number of abstract expressions that exist, the ones the operators create
\* included.
MaxExprs == 4

\* The operators of AbstractExpression that build a new expression.
SugarOps == {"__or__", "__and__", "__lt__", "__le__", "__gt__", "__ge__",
             "__eq__", "__add__", "__sub__"}

\* An abstract expression: attrs, the expressions that are values of its own
\* attributes; items, the expressions held in its list-valued attributes (the
\* vars and var_exprs of a Let or Block); the frozen flag.
NewExpr(attrs, items) == [attrs |-> attrs, items |-> items, frozen |-> FALSE]

\* The ways expression m is a component of expression n.
Holds == {"no", "attribute", "list"}

\* A prepared tree: expression 1 is the root, an expression holds expressions
\* created before it was (greater numbers), in an attribute or in a list.
InitExprs ==
    \E h \in [{<<n, m>> \in Tree \X Tree : n < m} -> Holds] :
        exprs = [n \in Tree |->
                   NewExpr({m \in Tree : n < m /\ h[<<n, m>>] = "attribute"},
                           {m \in Tree : n < m /\ h[<<n, m>>] = "list"})]

\* Frozable.protect that lets every call through.
ProtectedNever(e) == FALSE

\* Frozable.protect: the call is refused.
Protected(e) == e.frozen

\* Frozable.unfreeze: the value trigger_freeze is called with.
UnfreezeValue(e) == FALSE

\* Frozable.trigger_freeze: the values of __dict__ that are Frozable.
FrozableComponents(e) == e.attrs

\* Frozable.trigger_freeze(value) on expression n, and freeze() on each of a
\* set of expressions.
RECURSIVE TriggerFreeze(_, _, _)
RECURSIVE FreezeEach(_, _)
TriggerFreeze(es, n, value) ==
    IF es[n].frozen /\ value THEN es
    ELSE FreezeEach([es EXCEPT ![n].frozen = value], FrozableComponents(es[n]))

FreezeEach(es, S) ==
    IF S = {} THEN es
    ELSE LET c == CHOOSE c \in S : TRUE
         IN FreezeEach(TriggerFreeze(es, c, TRUE), S \ {c})

\* Frozable.freeze
Freeze(n) ==
    /\ exc = "none"
    /\ n \in 1..Len(exprs)
    /\ exprs' = TriggerFreeze(exprs, n, TRUE)
    /\ call' = [op |-> "freeze", on |-> n, ok |-> TRUE]
    /\ NoRaise
    /\ UNCHANGED <<variable, construct_call, let_state, properties_>>

\* Frozable.unfreeze
Unfreeze(n) ==
    /\ exc = "none"
    /\ n \in 1..Len(exprs)
    /\ exprs' = TriggerFreeze(exprs, n, UnfreezeValue(exprs[n]))
    /\ call' = [op |-> "unfreeze", on |-> n, ok |-> TRUE]
    /\ NoRaise
    /\ UNCHANGED <<variable, construct_call, let_state, properties_>>

\* An operator of AbstractExpression called on n with a literal as the other
\* operand, through the wrapper of Frozable.protect: the new expression holds n.
Sugar(op, n) ==
    /\ exc = "none"
    /\ n \in 1..Len(exprs)
    /\ IF Protected(exprs[n])
       THEN /\ Raise("Exception", <<" Illegal method call", op>>)
            /\ call' = [op |-> op, on |-> n, ok |-> FALSE]
            /\ UNCHANGED exprs
       ELSE /\ Len(exprs) < MaxExprs
            /\ exprs' = Append(exprs, NewExpr({n}, {}))
            /\ call' = [op |-> op, on |-> n, ok |-> TRUE]
            /\ NoRaise
    /\ UNCHANGED <<variable, construct_call, let_state, properties_>>

\* AbstractExpression.__getattr__ called on n, through the wrapper of
\* Frozable.protect: the new expression (a FieldAccess) holds n.
GetAttr(n) ==
    /\ exc = "none"
    /\ n \in 1..Len(exprs)
    /\ IF Protected(exprs[n])
       THEN /\ Raise("Exception", <<"Illegal field access", "field">>)
            /\ call' = [op |-> "__getattr__", on |-> n, ok |-> FALSE]
            /\ UNCHANGED exprs
       ELSE /\ Len(exprs) < MaxExprs
            /\ exprs' = Append(exprs, NewExpr({n}, {}))
            /\ call' = [op |-> "__getattr__", on |-> n, ok |-> TRUE]
            /\ NoRaise
    /\ UNCHANGED <<variable, construct_call, let_state, properties_>>

NextFreeze ==
    \/ \E n \in 1..MaxExprs : Freeze(n)
    \/ \E n \in 1..MaxExprs : Unfreeze(n)
    \/ \E op \in SugarOps, n \in 1..MaxExprs : Sugar(op, n)
    \/ \E n \in 1..MaxExprs : GetAttr(n)

InitFreeze ==
    ManagerIdle /\ NoVariable /\ InitExprs /\ NoConstructCall /\ NoLet /\ NoPasses

SpecFreeze == InitFreeze /\ [][NextFreeze]_vars

\* C13: freeze on a frozen expression changes no expression, and freezing
\* again anything a freeze has frozen changes nothing; an operator or a field
\* access on a frozen expression raises the illegal-access exception and
\* creates no expression.
C13_FreezeIsIdempotent ==
    /\ [](\A n \in 1..Len(exprs) :
             LET once == TriggerFreeze(exprs, n, TRUE)
             IN \A m \in 1..Len(exprs) :
                   once[m].frozen => TriggerFreeze(once, m, TRUE) = once)
    /\ [][\A n \in 1..Len(exprs) :
             /\ (exprs[n].frozen /\ Freeze(n)) => exprs' = exprs
             /\ (exprs[n].frozen /\ ((\E op \in SugarOps : Sugar(op, n)) \/ GetAttr(n))) =>
                   /\ exc' = "Exception"
                   /\ diag_msg'[1] \in {" Illegal method call", "Illegal field access"}
                   /\ ~call'.ok
                   /\ exprs' = exprs]_vars

\* An operator built an expression on the root, the tree was frozen, and the
\* operator was refused on the root.
C13_Witness ==
    /\ exc = "Exception"
    /\ call.op \in SugarOps
    /\ call.on = 1
    /\ ~call.ok
    /\ Len(exprs) = MaxExprs
    /\ \A n \in Tree : exprs[n].frozen

\* The expressions reachable from the expressions of S through attributes and
\* lists.
RECURSIVE Reachable(_, _)
Reachable(es, S) ==
    LET more == S \cup UNION {es[n].attrs \cup es[n].items : n \in S}
    IN IF more = S THEN S ELSE Reachable(es, more)

\* C14: after freeze() on the root of a tree of which no expression is frozen,
\* every expression reachable from the root through attributes and lists is
\* frozen.
C14_FreezeReachesEveryComponent ==
    [][((\A n \in 1..Len(exprs) : ~exprs[n].frozen) /\ Freeze(1)) =>
          \A m \in Reachable(exprs, {1}) : exprs'[m].frozen]_vars

\* C15: an expression that is frozen stays frozen.
C15_FrozenIsIrreversible ==
    [][\A n \in 1..Len(exprs) : exprs[n].frozen => exprs'[n].frozen]_vars

-----------------------------------------------------------------------------
(* construct and unsugar *)

\* The types of the language: node types in one derivation chain, a node type
\* outside it, and the types of the literals.
NodeTypes == {"RootNode", "ChildNode", "GrandChildNode", "OtherNode"}
LiteralTypes == {"Bool", IntType, "Symbol"}
AllTypes == NodeTypes \cup LiteralTypes

\* The base of a node type.
BaseOf(t) == CASE t = "ChildNode" -> "RootNode"
               [] t = "GrandChildNode" -> "ChildNode"
               [] OTHER -> NoType

\* CompiledType.matches: the type is the formal type or derives from it.
RECURSIVE Matches(_, _)
Matches(t, formal) ==
    IF t = formal THEN TRUE
    ELSE IF BaseOf(t) = NoType THEN FALSE
    ELSE Matches(BaseOf(t), formal)

\* The values construct is called on: type is the type of the node the
\* construct method of the expression returns, for a value that is or unsugars
\* to an abstract expression.
Value(kind, type) == [kind |-> kind, type |-> type]
Values ==
    {Value("None", NoType), Value("bool", "Bool"), Value("int", IntType),
     Value("basestring", "Symbol"), Value("float", NoType), Value("list", NoType),
     Value("CompiledType", NoType),
     Value("Defer AbstractExpression", "RootNode"), Value("Defer CompiledType", NoType)}
    \cup {Value("AbstractExpression", t) : t \in AllTypes}

\* expected_type_or_pred: None, a type, or a predicate given by the types it
\* is true of.
Expectations ==
    {[kind |-> "None", type |-> NoType, holds |-> {}]}
    \cup {[kind |-> "CompiledType", type |-> t, holds |-> {}] : t \in AllTypes}
    \cup {[kind |-> "predicate", type |-> NoType, holds |-> S] :
             S \in {{}, NodeTypes, LiteralTypes, AllTypes}}

NoNode == [kind |-> "None", type |-> NoType, casts |-> 0]

\* issubclass for the classes of the values: bools are ints in Python.
IsSubclass(class, base) == class = base \/ (class = "bool" /\ base = "int")

\* isinstance(expr, (bool, int))
IsBoolOrInt(v) == IsSubclass(v.kind, "bool") \/ IsSubclass(v.kind, "int")

\* Literal.construct with int before bool in its table.
LiteralDispatchIntFirst ==
    <<[class |-> "int", type |-> IntType], [class |-> "bool", type |-> "Bool"]>>

\* Literal.construct: the table it dispatches on, in order.
LiteralDispatch ==
    <<[class |-> "bool", type |-> "Bool"], [class |-> "int", type |-> IntType]>>

\* dispatch_on_type: the first entry of the table the class is a subclass of;
\* NoType stands for the exception raised when there is none.
RECURSIVE DispatchOnType(_, _)
DispatchOnType(class, table) ==
    IF table = <<>> THEN NoType
    ELSE IF IsSubclass(class, Head(table).class) THEN Head(table).type
    ELSE DispatchOnType(class, Tail(table))

\* The type of the LiteralExpr that Literal.construct returns.
LiteralType(class) == DispatchOnType(class, LiteralDispatch)

\* unsugar: the expression, before it is checked.
Unsugared(v) ==
    CASE IsBoolOrInt(v) -> Value("Literal", LiteralType(v.kind))
      [] v.kind = "basestring" -> Value("SymbolLiteral", v.type)
      [] v.kind = "Defer AbstractExpression" -> Value("AbstractExpression", v.type)
      [] v.kind = "Defer CompiledType" -> Value("CompiledType", NoType)
      [] OTHER -> v

IsAbstractExpression(e) == e.kind \in {"Literal", "SymbolLiteral", "AbstractExpression"}

\* unsugar: None is returned as it is, before the check.
UnsugarReturnsEarly(v) == v.kind = "None"

\* construct that wraps every node it returns in a Cast.
NeedsCastAlways(downcast, formal, ret_type) == TRUE

\* construct: a conversion is generated.
NeedsCast(downcast, formal, ret_type) == downcast /\ formal # ret_type

Returned(node) == [exc |-> "none", msg |-> "", node |-> node]
Raised(kind, msg) == [exc |-> kind, msg |-> msg, node |-> NoNode]

\* construct(expr, expected_type_or_pred, downcast=downcast)
ConstructResult(v, expected, downcast) ==
    LET e == Unsugared(v)
        ret == [kind |-> e.kind, type |-> e.type, casts |-> 0]
    IN IF UnsugarReturnsEarly(v)
       THEN Raised("AttributeError", "NoneType has no attribute diagnostic_context")
       ELSE IF ~IsAbstractExpression(e)
       THEN Raised("DiagnosticError", "Invalid abstract expression")
       ELSE IF expected.kind = "None" THEN Returned(ret)
       ELSE IF expected.kind = "CompiledType"
       THEN IF ~Matches(ret.type, expected.type)
            THEN Raised("DiagnosticError", "Expected type, got another")
            ELSE IF NeedsCast(downcast, expected.type, ret.type)
            THEN Returned([kind |-> "Cast", type |-> expected.type, casts |-> 1])
            ELSE Returned(ret)
       ELSE IF ret.type \notin expected.holds
       THEN Raised("DiagnosticError", "Evaluating predicate failed")
       ELSE Returned(ret)

InitConstruct ==
    /\ construct_args \in {<<v, expected, downcast>> :
                              v \in Values, expected \in Expectations,
                              downcast \in BOOLEAN}
    /\ construct_ret = <<>>

\* construct is called.
Construct ==
    /\ construct_ret = <<>>
    /\ construct_ret' = <<ConstructResult(construct_args[1], construct_args[2],
                                          construct_args[3])>>
    /\ UNCHANGED <<construct_args, variable, exprs, let_state, properties, exc, diag_msg>>

NextConstruct == Construct

InitConstructAlone ==
    ManagerIdle /\ NoVariable /\ NoExprs /\ InitConstruct /\ NoLet /\ NoPasses

SpecConstruct == InitConstructAlone /\ [][NextConstruct]_vars

\* The type of the node constructed from the value in a finished call.
ConstructedType == construct_args[1].type

\* C16: for a value that is an abstract expression whose node has type R, with
\* an expected type T: construct fails with a diagnostic if R does not match
\* T; returns the node itself if R = T or downcast is off; returns one Cast of
\* type T if R derives from T and downcast is on.  With a predicate it fails
\* if and only if the predicate is false on R.
C16_ConstructChecksType ==
    (construct_ret # <<>> /\ construct_args[1].kind = "AbstractExpression") =>
        LET R == ConstructedType
            expected == construct_args[2]
            downcast == construct_args[3]
            out == construct_ret[1]
        IN /\ expected.kind = "CompiledType" =>
                 IF ~Matches(R, expected.type)
                 THEN out.exc = "DiagnosticError" /\ out.node = NoNode
                 ELSE IF R = expected.type \/ ~downcast
                 THEN out = Returned([kind |-> "AbstractExpression", type |-> R,
                                      casts |-> 0])
                 ELSE out = Returned([kind |-> "Cast", type |-> expected.type,
                                      casts |-> 1])
           /\ expected.kind = "predicate" =>
                 /\ (out.exc # "none") <=> (R \notin expected.holds)
                 /\ out.exc # "none" => out.exc = "DiagnosticError" /\ out.node = NoNode

\* A node of a derived type was constructed against its base type and came
\* back in one Cast.
C16_Witness ==
    /\ construct_ret # <<>>
    /\ construct_args[1] = Value("AbstractExpression", "GrandChildNode")
    /\ construct_args[2].kind = "CompiledType"
    /\ construct_args[2].type = "RootNode"
    /\ construct_args[3]
    /\ construct_ret[1].node.casts = 1

\* C24: for every literal input, construct yields a literal node whose type
\* is exactly the boolean type when the input is true or false and exactly
\* the integer type when it is an integer: true and false are never typed
\* as integers.
C24_LiteralsAreTypedByDispatch ==
    (/\ construct_ret # <<>>
     /\ construct_args[1].kind \in {"bool", "int"}
     /\ construct_ret[1].exc = "none")
    => /\ construct_ret[1].node.kind = "Literal"
       /\ construct_ret[1].node.type =
             (IF construct_args[1].kind = "bool" THEN "Bool" ELSE IntType)

\* construct(True, bool_type) returned a node.
C24_Witness ==
    /\ construct_ret # <<>>
    /\ construct_args[1].kind = "bool"
    /\ construct_args[2].kind = "CompiledType"
    /\ construct_ret[1].exc = "none"
    /\ construct_ret[1].node.type = "Bool"

\* C17: for a value that is not a boolean, an integer, a text or an abstract
\* expression, construct fails with the diagnostic 'Invalid abstract
\* expression' and returns no node.
C17_InvalidValueIsDiagnosed ==
    (construct_ret # <<>>
     /\ construct_args[1].kind \notin {"bool", "int", "basestring", "AbstractExpression"}) =>
        /\ construct_ret[1].exc = "DiagnosticError"
        /\ construct_ret[1].msg = "Invalid abstract expression"
        /\ construct_ret[1].node = NoNode

-----------------------------------------------------------------------------
(* Let.construct *)

\* Number of bindings of a Let.
MaxBindings == 2
\* Number of slots of parent expressions that hold the same Let.
MaxSlots == 2

\* What the construction of a Let leaves alone.
let_frame == <<variable, exprs, construct_call, let_node, expr, expected_type,
               dynamic_vars, base_property, binding, current_scope, var_typed,
               in_type, constructed_expr, warnings, frames, nfail, api, passes>>

\* An expression of a Let: a literal of a type (ref = 0), or a reference to
\* the variable of binding ref.
Literal(type) == [ref |-> 0, type |-> type]
Reference(k) == [ref |-> k, type |-> NoType]
LetExprs(n) == {Literal("Bool"), Literal(IntType)} \cup {Reference(k) : k \in 1..n}

\* The Lets: n bindings, a body, and the number of slots that hold the node.
InitLet ==
    /\ \E n \in 0..MaxBindings :
          \E bound \in [1..n -> LetExprs(n)], body \in LetExprs(n),
             slots \in 1..MaxSlots :
              let_node = [var_exprs |-> bound, expr |-> body, slots |-> slots]
    /\ let_types = <<>>
    /\ let_pc = [round |-> 0, phase |-> "prepare", k |-> 0, type |-> NoType]

NumBindings == Len(let_node.var_exprs)

\* Let.construct, the loop: where it goes from binding k on.
LoopFrom(round, k) ==
    IF k <= NumBindings
    THEN [round |-> round, phase |-> "var_expr", k |-> k, type |-> NoType]
    ELSE [round |-> round, phase |-> "expr", k |-> 0, type |-> NoType]

\* Let.construct that constructs every bound expression before it sets the
\* type of a variable.
AfterVarExprDeferred(round, k, type) ==
    IF k < NumBindings THEN LoopFrom(round, k + 1)
    ELSE [round |-> round, phase |-> "set_type", k |-> k, type |-> type]

\* Let.construct: after construct(abs_expr) comes var.set_type(var_expr.type).
AfterVarExpr(round, k, type) ==
    [round |-> round, phase |-> "set_type", k |-> k, type |-> type]

RECURSIVE CreateVariables(_, _)
CreateVariables(table, n) ==
    IF n = 0 THEN table ELSE CreateVariables(CreateScopeless(table, "X"), n - 1)

\* Let.do_prepare: the variables are created, each with a scopeless local
\* variable and no type.
LetDoPrepare ==
    /\ exc = "none"
    /\ let_pc.phase = "prepare"
    /\ local_vars' = [local_vars EXCEPT ![Owner] = CreateVariables(@, NumBindings)]
    /\ let_types' = [k \in 1..NumBindings |-> NoType]
    /\ let_pc' = LoopFrom(1, 1)
    /\ UNCHANGED <<scopes, exc, diag_msg, let_frame>>

\* The type of the node an expression of the Let constructs to; NoType when
\* AbstractVariable.construct is called on a variable that has no type.
ConstructedTypeOf(e) == IF e.ref = 0 THEN e.type ELSE let_types[e.ref]

\* Let.construct, the loop: construct(abs_expr)
LetConstructVarExpr ==
    /\ exc = "none"
    /\ let_pc.phase = "var_expr"
    /\ LET type == ConstructedTypeOf(let_node.var_exprs[let_pc.k])
       IN IF type = NoType
          THEN /\ Raise("AssertionError", <<"VariableExpr: type is not a CompiledType">>)
               /\ UNCHANGED let_pc
          ELSE /\ let_pc' = AfterVarExpr(let_pc.round, let_pc.k, type)
               /\ NoRaise
    /\ UNCHANGED <<local_vars, scopes, let_types, let_frame>>

\* Let.construct, the loop: var.set_type(var_expr.type)
LetSetType ==
    /\ exc = "none"
    /\ let_pc.phase = "set_type"
    /\ IF let_types[let_pc.k] # NoType
       THEN /\ Raise("AssertionError", <<"Variable type cannot be set twice">>)
            /\ UNCHANGED <<let_types, let_pc>>
       ELSE /\ let_types' = [let_types EXCEPT ![let_pc.k] = let_pc.type]
            /\ let_pc' = [let_pc EXCEPT !.phase = "add"]
            /\ NoRaise
    /\ UNCHANGED <<local_vars, scopes, let_frame>>

\* Let.construct, the loop: scope.add(var.local_var)
LetScopeAdd ==
    /\ exc = "none"
    /\ let_pc.phase = "add"
    /\ LET s == current_scope[Owner]
           v == let_pc.k
       IN IF ScopeAddAccepts(local_vars[Owner], v)
          THEN /\ local_vars' = [local_vars EXCEPT ![Owner] = ScopeAddTable(@, s, v)]
               /\ scopes' = [scopes EXCEPT ![Owner] = ScopeAddVariables(@, s, v)]
               /\ let_pc' = LoopFrom(let_pc.round, let_pc.k + 1)
               /\ NoRaise
          ELSE /\ Raise("AssertionError", <<"already has a scope">>)
               /\ UNCHANGED <<local_vars, scopes, let_pc>>
    /\ UNCHANGED <<let_types, let_frame>>

\* Let.construct, after the loop: the variables are constructed, then the body.
LetConstructExpr ==
    /\ exc = "none"
    /\ let_pc.phase = "expr"
    /\ LET type == ConstructedTypeOf(let_node.expr)
       IN IF type = NoType \/ \E k \in 1..NumBindings : let_types[k] = NoType
          THEN /\ Raise("AssertionError", <<"VariableExpr: type is not a CompiledType">>)
               /\ UNCHANGED let_pc
          ELSE /\ let_pc' = [let_pc EXCEPT !.phase = "done", !.type = type]
               /\ NoRaise
    /\ UNCHANGED <<local_vars, scopes, let_types, let_frame>>

\* The parent expression constructs its next operand, the same Let.
LetConstructAgain ==
    /\ exc = "none"
    /\ let_pc.phase = "done"
    /\ let_pc.round < let_node.slots
    /\ let_pc' = LoopFrom(let_pc.round + 1, 1)
    /\ UNCHANGED <<local_vars, scopes, let_types, exc, diag_msg, let_frame>>

NextLet ==
    \/ LetDoPrepare
    \/ LetConstructVarExpr
    \/ LetSetType
    \/ LetScopeAdd
    \/ LetConstructExpr
    \/ LetConstructAgain

InitLetAlone ==
    ManagerIdle /\ NoVariable /\ NoExprs /\ NoConstructCall /\ InitLet /\ NoPasses

SpecLet == InitLetAlone /\ [][NextLet]_vars

\* The variable of binding j has its type and its scope.
Bound(j) == let_types[j] # NoType /\ local_vars[Owner][j].scope = current_scope[Owner]
Unbound(j) == let_types[j] = NoType /\ local_vars[Owner][j].scope = 0

\* C18: in the first construction of a Let, when the bound expression of
\* binding k is about to be constructed the variables of the bindings before k
\* have their type and are in the current scope, and no later one has; the
\* type of variable k is the type of its bound expression; when the body is
\* constructed every variable has its type.
C18_BindingsLeftToRight ==
    (let_pc.phase # "prepare" /\ let_pc.round = 1) =>
        /\ let_pc.phase \in {"var_expr", "set_type"} =>
              /\ \A j \in 1..NumBindings : j < let_pc.k => Bound(j)
              /\ \A j \in 1..NumBindings : j >= let_pc.k => Unbound(j)
        /\ let_pc.phase = "add" =>
              /\ \A j \in 1..NumBindings : j < let_pc.k => Bound(j)
              /\ let_types[let_pc.k] = let_pc.type
              /\ \A j \in 1..NumBindings : j > let_pc.k => Unbound(j)
        /\ (let_pc.phase = "expr" \/ let_pc.phase = "done") =>
              \A j \in 1..NumBindings :
                  /\ Bound(j)
                  /\ let_types[j] = ConstructedTypeOf(let_node.var_exprs[j])

\* A Let with the most bindings is constructed.
C18_Witness ==
    /\ let_pc.phase = "done"
    /\ let_pc.round = 1
    /\ NumBindings = MaxBindings
    /\ exc = "none"
    /\ \A j \in 1..NumBindings : Bound(j)

\* C19: the construction of the bound expression of binding k+1 fails when
\* the expression is a reference to binding k; the construction of a body that
\* is a reference to binding k succeeds with the type of binding k.
C19_NoForwardVisibility ==
    [][/\ (LetConstructVarExpr /\ let_pc.round = 1 /\ let_pc.k > 1
           /\ let_node.var_exprs[let_pc.k].ref = let_pc.k - 1) => exc' # "none"
       /\ (LetConstructExpr /\ let_pc.round = 1 /\ let_node.expr.ref # 0) =>
             /\ exc' = "none"
             /\ let_pc'.type = let_types[let_node.expr.ref]]_vars

\* C20: every construction of a Let held in several slots, the second
\* included, goes through without an exception and leaves the local variables
\* and the scopes of the first construction as they are.
C20_SecondConstructionSucceeds ==
    /\ [](let_pc.round >= 2 => exc = "none")
    /\ [][let_pc.round >= 2 => UNCHANGED <<local_vars, scopes>>]_vars

-----------------------------------------------------------------------------
(* PropertyDef.warn_on_unused_bindings *)

\* Number of resolved expressions of the constructed body.
MaxIR == 3

\* Everything but what the passes work on.
compilation == <<expr, expected_type, dynamic_vars, base_property, binding, locals,
                 in_type, constructed_expr, warnings, frames, nfail, api, variable,
                 exprs, construct_call, let_state, exc, diag_msg>>

\* The same, but for the exception that propagates.
compilation_ == <<expr, expected_type, dynamic_vars, base_property, binding, locals,
                  in_type, constructed_expr, warnings, frames, nfail, api, variable,
                  exprs, construct_call, let_state>>

\* What the other passes work on.
other_passes == <<arithmetic, abstract_fn, prepared, entity>>

\* The variables of the property, and VariableExpr.name: the names are not in
\* the order in which the variables are created.
BoundVars == 1..3
VarName(v) == <<"C", "A", "B">>[v]
NameRank(name) == CHOOSE r \in 1..3 : <<"A", "B", "C">>[r] = name

\* The resolved expressions of base.py that have operands or define variables.
VariableExpr(v) == [kind |-> "VariableExpr", v |-> v]
LiteralExpr == [kind |-> "LiteralExpr"]
ArithmeticExpr(l, r) == [kind |-> "Arithmetic.Expr", l |-> l, r |-> r]
LetExpr(v, e, body) == [kind |-> "Let.Expr", v |-> v, var_expr |-> e, expr |-> body]
BindingScope(v, body) == [kind |-> "BindingScope", v |-> v, expr |-> body]

\* ResolvedExpression._bindings
OwnBindings(node) ==
    IF node.kind \in {"Let.Expr", "BindingScope"} THEN {node.v} ELSE {}

\* ResolvedExpression.flat_subexprs: the operands that are in the table, and
\* the VariableExpr that BindingScope.subexprs lists with them ('0-bindings').
\* The keys of the dictionary 'vars' of Let.Expr.subexprs are not operands.
FlatSubexprs(node) ==
    CASE node.kind = "Arithmetic.Expr" -> {node.l, node.r}
      [] node.kind = "Let.Expr" -> {node.var_expr, node.expr}
      [] node.kind = "BindingScope" -> {node.expr}
      [] OTHER -> {}

FlatSubexprVars(node) ==
    IF node.kind = "BindingScope" THEN {node.v} ELSE {}

\* ResolvedExpression.bindings
RECURSIVE Bindings(_, _)
Bindings(table, n) ==
    OwnBindings(table[n]) \cup UNION {Bindings(table, k) : k \in FlatSubexprs(table[n])}

\* mark_vars that does not skip the bindings of a BindingScope.
MarkedExprKeepsBindings(table, n) == table[n]

\* mark_vars: the expression it looks at, BindingScope skipped.
MarkedExpr(table, n) ==
    IF table[n].kind = "BindingScope" THEN table[table[n].expr] ELSE table[n]

\* mark_vars: the variables it marks as used from the node n down.
RECURSIVE MarkVars(_, _)
MarkVars(table, n) ==
    LET e == MarkedExpr(table, n)
    IN (IF e.kind = "VariableExpr" THEN {e.v} ELSE {})
       \cup FlatSubexprVars(e)
       \cup UNION {MarkVars(table, k) : k \in FlatSubexprs(e)}

\* list.sort(key=lambda var: var.name) of the variables S, whatever the
\* order in which the dictionary yields them.
RECURSIVE SortByName(_)
SortByName(S) ==
    IF S = {} THEN <<>>
    ELSE LET first == CHOOSE v \in S :
                         \A w \in S : NameRank(VarName(v)) <= NameRank(VarName(w))
         IN <<first>> \o SortByName(S \ {first})

\* WarningSet.unused_bindings.warn_if(vars, message): emitted when vars is
\* not empty.
WarnIf(emitted, kind, vs) ==
    IF vs = <<>> THEN emitted ELSE Append(emitted, [kind |-> kind, vars |-> vs])

\* The variables that have a binding so far.
BoundSoFar ==
    natural_arguments \cup UNION {OwnBindings(ir_nodes[k]) : k \in 1..Len(ir_nodes)}

\* The body handed to the pass: the property has arguments, some variables
\* are tagged as ignored.
InitBindingsPass ==
    /\ ir_nodes = <<>>
    /\ natural_arguments \in SUBSET {3}
    /\ ignored \in SUBSET BoundVars
    /\ unused_bindings = <<>>

Building == unused_bindings = <<>> /\ Len(ir_nodes) < MaxIR /\ call = NoCall

\* construct of a literal or of a reference to a variable.
ConstructLeaf ==
    /\ Building
    /\ \E node \in {LiteralExpr} \cup {VariableExpr(v) : v \in BoundVars} :
          ir_nodes' = Append(ir_nodes, node)
    /\ UNCHANGED <<natural_arguments, ignored, unused_bindings, compilation, other_passes>>

\* construct of an expression that has operands and defines no variable.
ConstructOperands ==
    /\ Building
    /\ \E l, r \in 1..Len(ir_nodes) :
          /\ l < r
          /\ ir_nodes' = Append(ir_nodes, ArithmeticExpr(l, r))
    /\ UNCHANGED <<natural_arguments, ignored, unused_bindings, compilation, other_passes>>

\* Let.construct: one variable, its expression, the body.
ConstructLet ==
    /\ Building
    /\ \E v \in BoundVars \ BoundSoFar, e, body \in 1..Len(ir_nodes) :
          ir_nodes' = Append(ir_nodes, LetExpr(v, e, body))
    /\ UNCHANGED <<natural_arguments, ignored, unused_bindings, compilation, other_passes>>

\* A construct that opens a scope for a variable wraps its sub-expression in
\* a BindingScope and holds it as an operand.
ConstructBindingScope ==
    /\ Building
    /\ \E v \in BoundVars \ BoundSoFar, body \in 1..Len(ir_nodes) :
          /\ ir_nodes[body].kind # "BindingScope"
          /\ ir_nodes' = Append(ir_nodes, BindingScope(v, body))
    /\ UNCHANGED <<natural_arguments, ignored, unused_bindings, compilation, other_passes>>

\* PropertyDef.warn_on_unused_bindings on the body whose root is the last
\* expression constructed.
WarnOnUnusedBindings ==
    /\ ir_nodes # <<>>
    /\ call = NoCall
    /\ LET root == Len(ir_nodes)
           all_vars == Bindings(ir_nodes, root) \cup natural_arguments
           used == MarkVars(ir_nodes, root)
           all_keys == all_vars \cup used
           unused_vars == SortByName({v \in all_keys : v \notin used /\ v \notin ignored})
           wrongly_used_vars == SortByName({v \in all_keys : v \in used /\ v \in ignored})
       IN unused_bindings' = WarnIf(WarnIf(unused_bindings, "not used", unused_vars),
                                    "used even though ignored", wrongly_used_vars)
    /\ call' = [op |-> "warn_on_unused_bindings", on |-> Len(ir_nodes), ok |-> TRUE]
    /\ UNCHANGED <<ir_nodes, natural_arguments, ignored, expr, expected_type,
                   dynamic_vars, base_property, binding, locals, in_type,
                   constructed_expr, warnings, frames, nfail, withs, pushes, pops,
                   nodes, variable, exprs, construct_call, let_state, exc, diag_msg,
                   other_passes>>

NextBindingsPass ==
    \/ ConstructLeaf
    \/ ConstructOperands
    \/ ConstructLet
    \/ ConstructBindingScope
    \/ WarnOnUnusedBindings

InitBindingsPassAlone ==
    /\ ManagerIdle /\ NoVariable /\ NoExprs /\ NoConstructCall /\ NoLet
    /\ InitBindingsPass /\ NoArithmetic /\ NoAbstractFn /\ NoPrepare /\ NoEntity

SpecBindingsPass == InitBindingsPassAlone /\ [][NextBindingsPass]_vars

\* The expressions of the tree under n, operands only: the variables a
\* BindingScope or a Let.Expr defines are not operands, what they hold is.
RECURSIVE Tree_(_, _)
Tree_(table, n) ==
    LET node == table[n]
        held == CASE node.kind = "Arithmetic.Expr" -> {node.l, node.r}
                  [] node.kind = "Let.Expr" -> {node.var_expr, node.expr}
                  [] node.kind = "BindingScope" -> {node.expr}
                  [] OTHER -> {}
    IN {n} \cup UNION {Tree_(table, k) : k \in held}

\* The variables a reference to which is an operand of the body.
Referenced ==
    {ir_nodes[k].v : k \in {j \in Tree_(ir_nodes, Len(ir_nodes)) :
                              ir_nodes[j].kind = "VariableExpr"}}

\* The bindings of the body: defined in its tree, or natural arguments.
BindingsOfBody ==
    natural_arguments
    \cup {ir_nodes[k].v : k \in {j \in Tree_(ir_nodes, Len(ir_nodes)) :
                                   ir_nodes[j].kind \in {"Let.Expr", "BindingScope"}}}

Warned == call.op = "warn_on_unused_bindings"

\* The variables a warning of the kind lists, and its list.
Listed(kind) ==
    UNION {{unused_bindings[i].vars[j] : j \in 1..Len(unused_bindings[i].vars)}
           : i \in {k \in 1..Len(unused_bindings) : unused_bindings[k].kind = kind}}

SortedByName(vs) ==
    \A i, j \in 1..Len(vs) : i < j => NameRank(VarName(vs[i])) < NameRank(VarName(vs[j]))

-----------------------------------------------------------------------------
(* Arithmetic.construct and the rendering of what it returns *)

\* The Python values an operand unsugars from.
PyInt(i) == [py |-> "int", value |-> ToString(i)]
PyBool(b) == [py |-> "bool", value |-> b]
PyStr(text) == [py |-> "basestring", value |-> text]
Operands == {PyInt(1), PyInt(2), PyBool("True"), PyStr("a")}
Operators == {"+", "-", "&"}

InitArithmetic ==
    arithmetic \in {<<[l |-> l, r |-> r, op |-> op]>> :
                       l \in Operands, r \in Operands, op \in Operators}

\* str.format of a template with two holes.
Format2(before, between, after, a, b) == before \o a \o between \o b \o after

\* A ResolvedExpression as its constructor leaves it.
Resolved(kind, type, result_var, template, operands) ==
    [kind |-> kind, type |-> type,
     skippable_refcount |-> SkippableRefcount(kind),
     result_var |-> result_var, render_pre_called |-> FALSE, rendered |-> 0,
     template |-> template, operands |-> operands]

\* construct of an operand: Literal.construct for a bool or an int,
\* SymbolLiteral.construct for a string, which stores its result in a
\* variable; var is the index the variable would get.
OperandExpr(value, var) ==
    CASE value.py = "bool" -> Resolved("LiteralExpr", "Bool", 0, value.value, <<>>)
      [] value.py = "int" -> Resolved("LiteralExpr", IntType, 0, value.value, <<>>)
      [] OTHER -> Resolved("SymbolLiteral.Expr", "Symbol", var, "", <<>>)

\* The table after the constructor of the node created its result variable.
WithResultVar(table, node, base) ==
    IF node.result_var = 0 THEN table
    ELSE ScopeAddTable(CreateScopeless(table, base), current_scope[Owner], Len(table) + 1)

ScopesWithResultVar(ss, node) ==
    IF node.result_var = 0 THEN ss
    ELSE ScopeAddVariables(ss, current_scope[Owner], node.result_var)

\* ResolvedExpression.render_expr: the expression has a result variable.
HasResultVar(node) == node.result_var # 0

\* ResolvedExpression.render_expr of the node n: the name of the result
\* variable when there is one, _render_expr otherwise (the template of a
\* LiteralExpr, which has no operand here).
RenderExprText(ns, table, n) ==
    IF HasResultVar(ns[n]) THEN table[ns[n].result_var].name
    ELSE ns[n].template

\* BasicExpr._render_pre: the template filled with the operands' render_expr,
\* assigned to the result variable.
BasicExprAssignment(ns, table, n) ==
    table[ns[n].result_var].name \o " := "
    \o Format2("(", " " \o ns[n].template \o " ", ")",
               RenderExprText(ns, table, ns[n].operands[1]),
               RenderExprText(ns, table, ns[n].operands[2]))
    \o ";"

\* Arithmetic.construct, in the property Owner.
ArithmeticConstruct ==
    /\ exc = "none"
    /\ nodes = <<>>
    /\ LET a == arithmetic[1]
           l == OperandExpr(a.l, 1)
           table1 == WithResultVar(local_vars[Owner], l, "Sym")
           scopes1 == ScopesWithResultVar(scopes[Owner], l)
           r == OperandExpr(a.r, Len(table1) + 1)
           table2 == WithResultVar(table1, r, "Sym")
           scopes2 == ScopesWithResultVar(scopes1, r)
           both_symbols == l.type = "Symbol" /\ r.type = "Symbol"
           result == Resolved("BasicExpr", IF both_symbols THEN "Symbol" ELSE IntType,
                              Len(table2) + 1, a.op, <<1, 2>>)
       IN IF both_symbols /\ a.op # "&"
          THEN /\ Raise("AssertionError", <<"self.op == '&'">>)
               /\ nodes' = <<l, r>>
               /\ local_vars' = [local_vars EXCEPT ![Owner] = table2]
               /\ scopes' = [scopes EXCEPT ![Owner] = scopes2]
               /\ call' = [op |-> "construct", on |-> 0, ok |-> FALSE]
          ELSE IF ~both_symbols /\ l.type # r.type
          THEN /\ Raise("DiagnosticError", <<"Incompatible types for", a.op>>)
               /\ nodes' = <<l, r>>
               /\ local_vars' = [local_vars EXCEPT ![Owner] = table2]
               /\ scopes' = [scopes EXCEPT ![Owner] = scopes2]
               /\ call' = [op |-> "construct", on |-> 0, ok |-> FALSE]
          ELSE IF ~both_symbols /\ l.type \notin {"Symbol", IntType}
          THEN /\ Raise("DiagnosticError", <<"Invalid type for", a.op>>)
               /\ nodes' = <<l, r>>
               /\ local_vars' = [local_vars EXCEPT ![Owner] = table2]
               /\ scopes' = [scopes EXCEPT ![Owner] = scopes2]
               /\ call' = [op |-> "construct", on |-> 0, ok |-> FALSE]
          ELSE /\ NoRaise
               /\ nodes' = <<l, r, result>>
               /\ local_vars' = [local_vars EXCEPT ![Owner] =
                                   WithResultVar(table2, result,
                                                 IF both_symbols THEN "Sym_Concat"
                                                 ELSE "Arith_Result")]
               /\ scopes' = [scopes EXCEPT ![Owner] = ScopesWithResultVar(scopes2, result)]
               /\ call' = [op |-> "construct", on |-> 3, ok |-> TRUE]
    /\ UNCHANGED <<construction, current_scope, var_typed, nfail, withs, pushes, pops>>

\* render_expr of the node n.
ArithmeticRenderExpr(n) ==
    /\ exc = "none"
    /\ n \in 1..Len(nodes)
    /\ call' = [op |-> "render_expr", on |-> n, ok |-> TRUE,
                text |-> RenderExprText(nodes, local_vars[Owner], n)]
    /\ UNCHANGED <<construction, locals, exc, diag_msg, nfail, withs, pushes,
                   pops, nodes>>

\* render_pre of the node returned: the operands are pre-rendered, then the
\* result variable is assigned.  text is the last statement.
ArithmeticRenderPre ==
    /\ exc = "none"
    /\ Len(nodes) = 3
    /\ IF \E n \in 1..3 : nodes[n].render_pre_called
       THEN /\ Raise("AssertionError", <<"render_pre can be called only once">>)
            /\ call' = [op |-> "render_pre", on |-> 3, ok |-> FALSE]
            /\ UNCHANGED nodes
       ELSE /\ nodes' = [n \in 1..3 |-> [nodes[n] EXCEPT !.render_pre_called = TRUE,
                                                         !.rendered = 1]]
            /\ call' = [op |-> "render_pre", on |-> 3, ok |-> TRUE,
                        text |-> BasicExprAssignment(nodes, local_vars[Owner], 3)]
            /\ NoRaise
    /\ UNCHANGED <<construction, locals, nfail, withs, pushes, pops>>

NextArithmetic ==
    \/ ArithmeticConstruct
    \/ \E n \in 1..3 : ArithmeticRenderExpr(n)
    \/ ArithmeticRenderPre

InitArithmeticAlone ==
    /\ ManagerIdle /\ NoVariable /\ NoExprs /\ NoConstructCall /\ NoLet
    /\ NoBindingsPass /\ InitArithmetic /\ NoAbstractFn /\ NoPrepare /\ NoEntity

SpecArithmetic == InitArithmeticAlone /\ [][NextArithmetic]_vars

\* C23: constructing the abstraction tree of 1 + 2 yields one node whose type
\* is the integer type and whose render_expr is "(1 + 2)".
C23_OnePlusTwoRendersAsText ==
    (/\ arithmetic = <<[l |-> PyInt(1), r |-> PyInt(2), op |-> "+"]>>
     /\ call.op = "render_expr"
     /\ call.on = 3)
    => /\ nodes[3].type = IntType
       /\ call.text = "(1 + 2)"

-----------------------------------------------------------------------------
(* expand_abstract_fn *)

\* Number of positional parameters of the property function.
MaxParams == 2

\* Names of parameters, and str.lower of them.
ParamNames == {"x", "y", "Node", "bound_env"}
Lower(kw) == IF kw = "Node" THEN "node" ELSE kw

\* PropertyDef.reserved_arg_lower_names
ReservedArgLowerNames == {"node", "bound_env"}

\* The default values of parameters: a type, an early reference to a type,
\* something else.
Defaults == {"CompiledType", "Defer CompiledType", "int"}

\* resolve_type
ResolveType(default) ==
    IF default = "Defer CompiledType" THEN "CompiledType" ELSE default

\* What the function returns when called.
Returns == {"None", "AbstractExpression", "bool", "list"}

\* inspect.getargspec(fn): the defaults are those of the last parameters.
ArgSpecs ==
    {[args |-> args, defaults |-> defaults, varargs |-> varargs,
      keywords |-> keywords] :
        args \in {a \in UNION {[1..n -> ParamNames] : n \in 0..MaxParams} :
                     \A i, j \in 1..Len(a) : a[i] = a[j] => i = j},
        defaults \in UNION {[1..n -> Defaults] : n \in 0..MaxParams},
        varargs \in BOOLEAN, keywords \in BOOLEAN}

InitAbstractFn ==
    \E argspec \in ArgSpecs, returns \in Returns :
        /\ Len(argspec.defaults) <= Len(argspec.args)
        /\ abstract_fn = [argspec |-> argspec, returns |-> returns,
                          pc |-> "check_multiple", fn_arguments |-> <<>>,
                          calls |-> 0, fn_expr |-> "None"]

\* The first check of expand_abstract_fn.
SignatureAccepted(argspec) == ~argspec.varargs \/ ~argspec.keywords

\* The check of the name of a parameter that accepts every name.
ReservedNever(kw) == FALSE

\* The name of the parameter is reserved.
Reserved(kw) == Lower(kw) \in ReservedArgLowerNames

\* check_multiple: the two checks on the signature, in order.
CheckMultiple ==
    /\ exc = "none"
    /\ abstract_fn.pc = "check_multiple"
    /\ LET argspec == abstract_fn.argspec
       IN IF ~SignatureAccepted(argspec)
          THEN /\ Raise("DiagnosticError",
                        <<"Invalid function signature: no *args nor **kwargs allowed">>)
               /\ abstract_fn' = [abstract_fn EXCEPT !.pc = "raised"]
          ELSE IF Len(argspec.args) # Len(argspec.defaults)
          THEN /\ Raise("DiagnosticError",
                        <<"All parameters must have an associated type as a default value">>)
               /\ abstract_fn' = [abstract_fn EXCEPT !.pc = "raised"]
          ELSE /\ NoRaise
               /\ abstract_fn' = [abstract_fn EXCEPT !.pc = "parameters"]
    /\ UNCHANGED <<compilation_, bindings_pass, arithmetic, prepared, entity>>

\* One round of the loop over zip(argspec.args, defaults).
CheckParameter ==
    /\ exc = "none"
    /\ abstract_fn.pc = "parameters"
    /\ Len(abstract_fn.fn_arguments) < Len(abstract_fn.argspec.args)
    /\ LET k == Len(abstract_fn.fn_arguments) + 1
           kw == abstract_fn.argspec.args[k]
           default == ResolveType(abstract_fn.argspec.defaults[k])
       IN IF Reserved(kw)
          THEN /\ Raise("DiagnosticError", <<"Cannot define reserved arguments">>)
               /\ abstract_fn' = [abstract_fn EXCEPT !.pc = "raised"]
          ELSE IF default # "CompiledType"
          THEN /\ Raise("DiagnosticError",
                        <<"A valid Langkit DSLType subclass is required for parameter", kw>>)
               /\ abstract_fn' = [abstract_fn EXCEPT !.pc = "raised"]
          ELSE /\ NoRaise
               /\ abstract_fn' = [abstract_fn EXCEPT !.fn_arguments =
                                     Append(@, [name |-> kw, type |-> default,
                                                var |-> k])]
    /\ UNCHANGED <<compilation_, bindings_pass, arithmetic, prepared, entity>>

\* fn(*[arg.var for arg in fn_arguments]) and what is made of its result.
CallFn ==
    /\ exc = "none"
    /\ abstract_fn.pc = "parameters"
    /\ Len(abstract_fn.fn_arguments) = Len(abstract_fn.argspec.args)
    /\ LET returns == abstract_fn.returns
       IN IF returns = "None"
          THEN /\ NoRaise
               /\ abstract_fn' = [abstract_fn EXCEPT !.pc = "done", !.calls = @ + 1]
          ELSE IF returns = "list"
          THEN /\ Raise("DiagnosticError", <<"Invalid abstract expression">>)
               /\ abstract_fn' = [abstract_fn EXCEPT !.pc = "raised", !.calls = @ + 1]
          ELSE /\ NoRaise
               /\ abstract_fn' = [abstract_fn EXCEPT !.pc = "done", !.calls = @ + 1,
                                                     !.fn_expr = "Block"]
    /\ UNCHANGED <<compilation_, bindings_pass, arithmetic, prepared, entity>>

NextAbstractFn ==
    \/ CheckMultiple
    \/ CheckParameter
    \/ CallFn

InitAbstractFnAlone ==
    /\ ManagerIdle /\ NoVariable /\ NoExprs /\ NoConstructCall /\ NoLet
    /\ NoBindingsPass /\ NoArithmetic /\ InitAbstractFn /\ NoPrepare /\ NoEntity

SpecAbstractFn == InitAbstractFnAlone /\ [][NextAbstractFn]_vars

\* expand_abstract_fn has ended, by a return or by an exception.
Expanded == abstract_fn.pc \in {"done", "raised"}

\* A parameter fails validation: its name is reserved, it has no default
\* value, or its default value is not a type.
InvalidParameter ==
    LET argspec == abstract_fn.argspec
        n == Len(argspec.args)
        d == Len(argspec.defaults)
    IN \/ \E k \in 1..n : Lower(argspec.args[k]) \in {"node", "bound_env"}
       \/ d < n
       \/ \E k \in 1..d : argspec.defaults[k] \notin {"CompiledType", "Defer CompiledType"}

\* C25: expand_abstract_fn turns every positional parameter into an
\* Argument/Variable pair before it calls the function, and calls it exactly
\* once and only if every parameter passed validation: with a parameter that
\* does not, it fails with a diagnostic and the function has not been called.
C25_FunctionCalledOnceAfterValidation ==
    LET argspec == abstract_fn.argspec
    IN /\ abstract_fn.calls <= 1
       /\ abstract_fn.calls = 1 =>
             /\ ~InvalidParameter
             /\ Len(abstract_fn.fn_arguments) = Len(argspec.args)
             /\ \A k \in 1..Len(argspec.args) :
                   /\ abstract_fn.fn_arguments[k].name = argspec.args[k]
                   /\ abstract_fn.fn_arguments[k].var = k
       /\ abstract_fn.pc = "done" => abstract_fn.calls = 1
       /\ InvalidParameter =>
             /\ abstract_fn.calls = 0
             /\ Expanded => exc = "DiagnosticError"

\* A function of two parameters was called with two variables.
C25_Witness ==
    /\ abstract_fn.pc = "done"
    /\ abstract_fn.calls = 1
    /\ Len(abstract_fn.fn_arguments) = 2
    /\ abstract_fn.fn_expr = "Block"

\* C29: expand_abstract_fn rejects with 'Invalid function signature: no *args
\* nor **kwargs allowed' every function that has a *args parameter or a
\* **kwargs parameter, either one alone being enough, and does not call it.
C29_VarargsOrKeywordsRejected ==
    (abstract_fn.argspec.varargs \/ abstract_fn.argspec.keywords)
    => /\ abstract_fn.calls = 0
       /\ abstract_fn.pc # "parameters"
       /\ Expanded =>
             /\ exc = "DiagnosticError"
             /\ diag_msg = <<"Invalid function signature: no *args nor **kwargs allowed">>

-----------------------------------------------------------------------------
(* AbstractExpression.prepare *)

\* Number of abstract expressions of the tree handed to prepare.
MaxTree == 4

\* The attributes that hold one expression, in the order in which __dict__
\* yields them, and the attribute that holds a list of expressions.
Slots == <<"receiver", "expr", "then_expr", "var_expr">>
NoAttrs == [k \in {"receiver", "expr", "then_expr", "var_expr"} |-> 0]

AbstractNode(kind, field, attrs, items) ==
    [kind |-> kind, field |-> field, attrs |-> attrs, items |-> items,
     underscore_then |-> FALSE]

\* FieldAccess(receiver, field); the placeholder is the field "_".
FieldAccess(receiver, field) ==
    AbstractNode("FieldAccess", field, [NoAttrs EXCEPT !["receiver"] = receiver], <<>>)

\* Then.create_from_exprs(base, then_expr, var_expr), underscore_then set.
UnderscoreThen(base, then_expr, var_expr) ==
    [AbstractNode("Then", "", [NoAttrs EXCEPT !["expr"] = base,
                                              !["then_expr"] = then_expr,
                                              !["var_expr"] = var_expr], <<>>)
     EXCEPT !.underscore_then = TRUE]

\* The expressions no expression holds yet.
Held(ns) ==
    UNION {{ns[n].attrs[k] : k \in DOMAIN ns[n].attrs}
           \cup {ns[n].items[i] : i \in 1..Len(ns[n].items)} : n \in 1..Len(ns)} \ {0}
Free(ns) == (1..Len(ns)) \ Held(ns)

InitPrepare ==
    prepared = [tree |-> <<>>, nodes |-> <<>>, log |-> <<>>, ret |-> 0, done |-> FALSE]

Growing == ~prepared.done /\ Len(prepared.tree) < MaxTree

Grow(node) ==
    prepared' = [prepared EXCEPT !.tree = Append(@, node), !.nodes = Append(@, node)]

\* An expression without operands.
NewLeaf ==
    /\ Growing
    /\ Grow(AbstractNode("Literal", "", NoAttrs, <<>>))
    /\ UNCHANGED <<compilation, bindings_pass, arithmetic, abstract_fn, entity>>

\* receiver.field, receiver._
NewFieldAccess ==
    /\ Growing
    /\ \E receiver \in Free(prepared.tree), field \in {"_", "b"} :
          Grow(FieldAccess(receiver, field))
    /\ UNCHANGED <<compilation, bindings_pass, arithmetic, abstract_fn, entity>>

\* An expression that holds one operand in an attribute.
NewUnary ==
    /\ Growing
    /\ \E operand \in Free(prepared.tree) :
          Grow(AbstractNode("AbstractExpression", "",
                            [NoAttrs EXCEPT !["expr"] = operand], <<>>))
    /\ UNCHANGED <<compilation, bindings_pass, arithmetic, abstract_fn, entity>>

\* An expression that holds its operands in a list.
NewWithList ==
    /\ Growing
    /\ \E a \in Free(prepared.tree) :
          \/ Grow(AbstractNode("AbstractExpression", "", NoAttrs, <<a>>))
          \/ \E b \in Free(prepared.tree) \ {a} :
                Grow(AbstractNode("AbstractExpression", "", NoAttrs, <<a, b>>))
    /\ UNCHANGED <<compilation, bindings_pass, arithmetic, abstract_fn, entity>>

\* The first attribute of the expression that holds a placeholder, 0 if none.
RECURSIVE PlaceholderIn(_, _, _)
PlaceholderIn(ns, obj, slots) ==
    IF slots = <<>> THEN ""
    ELSE LET v == ns[obj].attrs[Head(slots)]
         IN IF v # 0 /\ ns[v].kind = "FieldAccess" /\ ns[v].field = "_"
            THEN Head(slots)
            ELSE PlaceholderIn(ns, obj, Tail(slots))

Visit(phase, fn, obj) == [phase |-> phase, fn |-> fn, on |-> obj]

\* prepare_pass(obj): expand_underscores_1, which may return a new Then for
\* the first placeholder it finds, then do_prepare on what it returned or on
\* obj.  h is the heap and the log of the calls; ret is the value returned.
PreparePass(h, obj) ==
    LET k == PlaceholderIn(h.nodes, obj, Slots)
        v == h.nodes[obj].attrs[k]
        var == Len(h.nodes) + 1
        t == Len(h.nodes) + 2
    IN IF k = ""
       THEN [nodes |-> h.nodes,
             log |-> h.log \o <<Visit(1, "expand_underscores_1", obj),
                                Visit(1, "do_prepare", obj)>>,
             ret |-> obj]
       ELSE [nodes |-> [h.nodes EXCEPT ![obj].attrs[k] = var]
                       \o <<AbstractNode("AbstractVariable", "", NoAttrs, <<>>),
                            UnderscoreThen(h.nodes[v].attrs["receiver"], obj, var)>>,
             log |-> h.log \o <<Visit(1, "expand_underscores_1", obj),
                                Visit(1, "do_prepare", t)>>,
             ret |-> t]

\* expand_underscores_2 on obj: a field access on an underscore Then is
\* hoisted into it.
ExpandUnderscores2(h, obj) ==
    LET node == h.nodes[obj]
        then == node.attrs["receiver"]
        log == Append(h.log, Visit(2, "expand_underscores_2", obj))
    IN IF /\ node.kind = "FieldAccess"
          /\ then # 0
          /\ h.nodes[then].kind = "Then"
          /\ h.nodes[then].underscore_then
       THEN [nodes |-> [h.nodes EXCEPT
                           ![obj].attrs["receiver"] = h.nodes[then].attrs["then_expr"],
                           ![then].attrs["then_expr"] = obj],
             log |-> log, ret |-> then]
       ELSE [nodes |-> h.nodes, log |-> log, ret |-> obj]

\* fn(obj) or obj, for the pass of the phase.
ApplyPass(h, obj, phase) ==
    IF phase = 1 THEN PreparePass(h, obj) ELSE ExpandUnderscores2(h, obj)

\* explore calls itself as explore(v, fn): pre has its default value.
PreOfChildren(pre) == TRUE

\* explore(obj, fn, pre) and its two loops: over obj.__dict__.items(), where
\* what explore returns for a value replaces it, and over a list, where what
\* it returns is dropped.
RECURSIVE Explore(_, _, _, _)
RECURSIVE ExploreAttrs(_, _, _, _, _)
RECURSIVE ExploreList(_, _, _, _)

Explore(h, obj, phase, pre) ==
    LET first == IF pre THEN ApplyPass(h, obj, phase)
                 ELSE [nodes |-> h.nodes, log |-> h.log, ret |-> obj]
        values == first.nodes[first.ret]
        inside == ExploreAttrs(first, first.ret, Slots, values, phase)
        lists == ExploreList(inside, values.items, phase, PreOfChildren(pre))
    IN IF pre THEN [nodes |-> lists.nodes, log |-> lists.log, ret |-> first.ret]
       ELSE ApplyPass(lists, first.ret, phase)

ExploreAttrs(h, obj, slots, values, phase) ==
    IF slots = <<>> THEN h
    ELSE LET v == values.attrs[Head(slots)]
         IN IF v = 0 THEN ExploreAttrs(h, obj, Tail(slots), values, phase)
            ELSE LET new_v == Explore(h, v, phase, PreOfChildren(FALSE))
                 IN ExploreAttrs([nodes |-> [new_v.nodes EXCEPT
                                                ![obj].attrs[Head(slots)] = new_v.ret],
                                  log |-> new_v.log, ret |-> 0],
                                 obj, Tail(slots), values, phase)

ExploreList(h, list, phase, pre) ==
    IF list = <<>> THEN h
    ELSE ExploreList(Explore(h, Head(list), phase, pre), Tail(list), phase, pre)

\* prepare on the last expression created: the two passes, the first one
\* parent first, the second one children first.
Prepare ==
    /\ ~prepared.done
    /\ prepared.tree # <<>>
    /\ LET self == Len(prepared.tree)
           pass1 == Explore([nodes |-> prepared.nodes, log |-> <<>>, ret |-> 0],
                            self, 1, TRUE)
           pass2 == Explore(pass1, pass1.ret, 2, FALSE)
       IN prepared' = [prepared EXCEPT !.nodes = pass2.nodes, !.log = pass2.log,
                                       !.ret = pass2.ret, !.done = TRUE]
    /\ UNCHANGED <<compilation, bindings_pass, arithmetic, abstract_fn, entity>>

NextPrepare ==
    \/ NewLeaf
    \/ NewFieldAccess
    \/ NewUnary
    \/ NewWithList
    \/ Prepare

InitPrepareAlone ==
    /\ ManagerIdle /\ NoVariable /\ NoExprs /\ NoConstructCall /\ NoLet
    /\ NoBindingsPass /\ NoArithmetic /\ NoAbstractFn /\ InitPrepare /\ NoEntity

SpecPrepare == InitPrepareAlone /\ [][NextPrepare]_vars

\* The expressions a node holds, in attributes and in lists.
ChildrenOf(ns, n) ==
    ({ns[n].attrs[k] : k \in DOMAIN ns[n].attrs}
     \cup {ns[n].items[i] : i \in 1..Len(ns[n].items)}) \ {0}

\* The expressions of the tree under n.
RECURSIVE Under(_, _)
Under(ns, n) == {n} \cup UNION {Under(ns, c) : c \in ChildrenOf(ns, n)}

\* The positions in the log of the calls of the pass of the phase on n.
Visits(phase, n) ==
    {i \in 1..Len(prepared.log) :
        /\ prepared.log[i].phase = phase
        /\ prepared.log[i].on = n
        /\ prepared.log[i].fn # "do_prepare"}

\* The tree has no placeholder: prepare rewrites nothing.
NothingToExpand ==
    \A n \in 1..Len(prepared.tree) : prepared.tree[n].field # "_"

\* C26: prepare applies the first pass to every node before its children are
\* visited and the second pass to every node only after all its children
\* have been visited, at every depth of the tree and not only at the root
\* (stated for the trees prepare does not rewrite, where every node is
\* visited once by each pass).
C26_PreOrderThenPostOrder ==
    (prepared.done /\ NothingToExpand) =>
       LET tree == Under(prepared.tree, Len(prepared.tree))
       IN /\ \A n \in tree : /\ Cardinality(Visits(1, n)) = 1
                             /\ Cardinality(Visits(2, n)) = 1
          /\ \A n \in tree : \A c \in ChildrenOf(prepared.tree, n) :
                /\ \A i \in Visits(1, n), j \in Visits(1, c) : i < j
                /\ \A i \in Visits(2, n), j \in Visits(2, c) : j < i

\* The nodes of the tree handed to prepare that hold a placeholder in an
\* attribute.
HeldPlaceholder ==
    {n \in Under(prepared.tree, Len(prepared.tree)) :
        PlaceholderIn(prepared.tree, n, Slots) # ""}

\* In the tree prepare returned, n is inside the body of an underscore Then
\* whose receiver is the receiver of the placeholder n held and whose
\* variable is the one that took the place of the placeholder in n.
EnclosedByThen(n) ==
    LET k == PlaceholderIn(prepared.tree, n, Slots)
        x == prepared.tree[prepared.tree[n].attrs[k]].attrs["receiver"]
        var == prepared.nodes[n].attrs[k]
    IN /\ prepared.nodes[var].kind = "AbstractVariable"
       /\ \E t \in Under(prepared.nodes, prepared.ret) :
             /\ prepared.nodes[t].kind = "Then"
             /\ prepared.nodes[t].underscore_then
             /\ prepared.nodes[t].attrs["var_expr"] = var
             /\ n \in Under(prepared.nodes, prepared.nodes[t].attrs["then_expr"])
             /\ x \in Under(prepared.nodes, prepared.nodes[t].attrs["expr"])

\* C27: after prepare, every node that held a placeholder field access in an
\* attribute has been replaced where it was held (an attribute of its parent,
\* an element of a list of its parent, or the root) by a Then node whose
\* receiver is the receiver of the placeholder, whose body holds the node and
\* whose variable is the implicit variable that replaced the placeholder; no
\* such node is left referring to the variable without the enclosing Then.
C27_PlaceholderBecomesThen ==
    prepared.done =>
       \A n \in HeldPlaceholder :
          n \in Under(prepared.nodes, prepared.ret) => EnclosedByThen(n)

-----------------------------------------------------------------------------
(* ResolvedExpression.destructure_entity and SavedExpr *)

\* The entity types of the two node types.
EntityTypes == {"NodeA.entity", "NodeB.entity"}

\* The kinds of expression destructure_entity is called on.
EntityKinds == {"VariableExpr", "LiteralExpr", "UncheckedCastExpr", "ComputingExpr"}

InitEntity == entity = [expr |-> 0, saved |-> 0, el |-> 0, info |-> 0]

\* An expression that evaluates to an entity is constructed in Owner.
NewEntityExpr ==
    /\ exc = "none"
    /\ nodes = <<>>
    /\ \E kind \in EntityKinds, type \in EntityTypes :
          LET result_var == IF ResultVarName(kind) # "" THEN Len(local_vars[Owner]) + 1
                            ELSE 0
              node == Resolved(kind, type, result_var, "", <<>>)
          IN /\ nodes' = <<node>>
             /\ local_vars' = [local_vars EXCEPT ![Owner] =
                                  WithResultVar(@, node, ResultVarName(kind))]
             /\ scopes' = [scopes EXCEPT ![Owner] = ScopesWithResultVar(@, node)]
    /\ entity' = [entity EXCEPT !.expr = 1]
    /\ call' = [op |-> "new", on |-> 1, ok |-> TRUE]
    /\ UNCHANGED <<expr, expected_type, dynamic_vars, base_property, binding,
                   current_scope, var_typed, in_type, constructed_expr, warnings,
                   frames, nfail, withs, pushes, pops, variable, exprs,
                   construct_call, let_state, exc, diag_msg, bindings_pass,
                   arithmetic, abstract_fn, prepared>>

\* SavedExpr.__init__: the result variable of the expression is exposed when
\* it has one, a new one is created otherwise.
SavedExpr(expr_, own) ==
    [kind |-> "SavedExpr", type |-> nodes[expr_].type,
     skippable_refcount |-> SkippableRefcount("SavedExpr"),
     result_var |-> IF nodes[expr_].result_var # 0 THEN nodes[expr_].result_var
                    ELSE own,
     own_result_var |-> IF nodes[expr_].result_var # 0 THEN 0 ELSE own,
     render_pre_called |-> FALSE, rendered |-> 0, template |-> "",
     operands |-> <<expr_>>]

\* LocalVar.ref_expr: a new VariableExpr for the variable.
RefExpr(type, var) ==
    [Resolved("VariableExpr", type, 0, "", <<>>) EXCEPT !.template = var]

\* A projection built on the wrapper itself.
ProjectionPrefixSaved(saved, ref) == saved

\* The prefix of a projection: saved.result_var_expr.
ProjectionPrefix(saved, ref) == ref

\* FieldAccess.Expr(prefix, field, [])
FieldAccessExpr(prefix, field) ==
    [Resolved("FieldAccess.Expr", field, 0, field, <<prefix>>) EXCEPT !.result_var = 0]

\* destructure_entity on the expression
DestructureEntity ==
    /\ exc = "none"
    /\ entity.expr # 0
    /\ entity.saved = 0
    /\ LET self == entity.expr
           own == Len(local_vars[Owner]) + 1
           saved == SavedExpr(self, own)
           at == Len(nodes) + 1
       IN /\ nodes' = nodes \o <<saved, RefExpr(saved.type, saved.result_var),
                                 FieldAccessExpr(ProjectionPrefix(at, at + 1), "el"),
                                 RefExpr(saved.type, saved.result_var),
                                 FieldAccessExpr(ProjectionPrefix(at, at + 3), "info")>>
          /\ local_vars' = [local_vars EXCEPT ![Owner] =
                               IF saved.own_result_var = 0 THEN @
                               ELSE ScopeAddTable(CreateScopeless(@, "Saved"),
                                                  current_scope[Owner], own)]
          /\ scopes' = [scopes EXCEPT ![Owner] =
                           IF saved.own_result_var = 0 THEN @
                           ELSE ScopeAddVariables(@, current_scope[Owner], own)]
          /\ entity' = [entity EXCEPT !.saved = at, !.el = at + 2, !.info = at + 4]
          /\ call' = [op |-> "destructure_entity", on |-> self, ok |-> TRUE]
    /\ UNCHANGED <<expr, expected_type, dynamic_vars, base_property, binding,
                   current_scope, var_typed, in_type, constructed_expr, warnings,
                   frames, nfail, withs, pushes, pops, variable, exprs,
                   construct_call, let_state, exc, diag_msg, bindings_pass,
                   arithmetic, abstract_fn, prepared>>

\* render_pre of the node n and, through _render_pre, of its operands: the
\* nodes after it, and whether no assertion failed.
RECURSIVE RenderPreOf(_, _)
RECURSIVE RenderPreEach(_, _)

RenderPreOf(ns, n) ==
    IF ns[n].render_pre_called THEN [nodes |-> ns, ok |-> FALSE]
    ELSE LET guarded == [ns EXCEPT ![n].render_pre_called = RenderPreCalled(ns[n])]
         IN IF ~RefcountedResultStored(ns[n]) THEN [nodes |-> guarded, ok |-> FALSE]
            ELSE LET inner == RenderPreEach(guarded, ns[n].operands)
                 IN IF ~inner.ok THEN inner
                    ELSE [nodes |-> [inner.nodes EXCEPT ![n].rendered = @ + 1],
                          ok |-> TRUE]

RenderPreEach(ns, operands) ==
    IF operands = <<>> THEN [nodes |-> ns, ok |-> TRUE]
    ELSE LET first == RenderPreOf(ns, Head(operands))
         IN IF ~first.ok THEN first ELSE RenderPreEach(first.nodes, Tail(operands))

\* render_pre is called on the wrapper or on a projection.
RenderPreEntity(n) ==
    /\ exc = "none"
    /\ n \in {entity.saved, entity.el, entity.info} \ {0}
    /\ nodes[n].rendered < MaxRender
    /\ LET out == RenderPreOf(nodes, n)
       IN /\ nodes' = out.nodes
          /\ call' = [op |-> "render_pre", on |-> n, ok |-> out.ok,
                      again |-> nodes[n].render_pre_called]
          /\ IF out.ok THEN NoRaise
             ELSE Raise("AssertionError", <<"render_pre can be called only once">>)
    /\ UNCHANGED <<expr, expected_type, dynamic_vars, base_property, binding,
                   locals, in_type, constructed_expr, warnings, frames, nfail,
                   withs, pushes, pops, variable, exprs, construct_call, let_state,
                   bindings_pass, arithmetic, abstract_fn, prepared, entity>>

NextEntity ==
    \/ NewEntityExpr
    \/ DestructureEntity
    \/ \E n \in 1..6 : RenderPreEntity(n)

InitEntityAlone ==
    /\ ManagerIdle /\ NoVariable /\ NoExprs /\ NoConstructCall /\ NoLet
    /\ NoBindingsPass /\ NoArithmetic /\ NoAbstractFn /\ NoPrepare /\ InitEntity

SpecEntity == InitEntityAlone /\ [][NextEntity]_vars

Destructured == entity.saved # 0

\* The projection reads nothing but a reference to the variable.
ReadsOnlyTheSlot(projection, var) ==
    /\ Len(nodes[projection].operands) = 1
    /\ nodes[nodes[projection].operands[1]].kind = "VariableExpr"
    /\ nodes[nodes[projection].operands[1]].template = var
    /\ nodes[nodes[projection].operands[1]].operands = <<>>

\* C28: destructure_entity returns a SavedExpr that always has a result slot
\* (the slot of the wrapped expression when it has one, a new one otherwise)
\* and two field accesses that read only a reference to that slot: rendering
\* the wrapper once and then both projections pre-renders the entity
\* expression exactly once, and rendering the projections never trips the
\* render-once guard.
C28_SavedOnceForBothProjections ==
    Destructured =>
       LET self == nodes[entity.expr]
           saved == nodes[entity.saved]
       IN /\ saved.result_var \in 1..Len(local_vars[Owner])
          /\ IF self.result_var # 0 THEN saved.result_var = self.result_var
             ELSE /\ saved.result_var = saved.own_result_var
                  /\ local_vars[Owner][saved.result_var].name = "Saved"
          /\ ReadsOnlyTheSlot(entity.el, saved.result_var)
          /\ ReadsOnlyTheSlot(entity.info, saved.result_var)
          /\ (/\ saved.rendered = 1
              /\ nodes[entity.el].rendered = 1
              /\ nodes[entity.info].rendered = 1) => self.rendered = 1
          /\ (/\ call.op = "render_pre"
              /\ call.on \in {entity.el, entity.info}
              /\ ~call.again) => call.ok

\* The wrapper of an expression without result variable, then the two
\* projections have been rendered.
C28_Witness ==
    /\ Destructured
    /\ nodes[entity.expr].result_var = 0
    /\ nodes[entity.saved].rendered = 1
    /\ nodes[entity.el].rendered = 1
    /\ nodes[entity.info].rendered = 1
    /\ nodes[entity.expr].rendered = 1
    /\ call.op = "render_pre"
    /\ call.on = entity.info
    /\ exc = "none"

====
